---- MODULE Spec2Model ----
(***************************************************************************)
(* Model of the S3 size scripts of src/getS3Size.                          *)
(*                                                                         *)
(* Every script is a separate program: each specification below starts    *)
(* one of them (the variable script says which) and leaves the state of   *)
(* the others at rest.                                                     *)
(*   SpecFanoutFair  the same under fair scheduling of the threads         *)
(*   SpecFanout  main of s3_bucket_sizes_fast.py / _with_folder.py: the    *)
(*               ThreadPoolExecutor fan-out over the buckets               *)
(*   SpecCW      get_bucket_size_cloudwatch on one bucket                  *)
(*   SpecFormat  format_size on one byte count                             *)
(*   SpecFolder  get_s3_folder_sizes / get_folder_size_s3 on one listing   *)
(*   SpecFolderMain  the mains of s3_folder_sizes.py, of                   *)
(*               s3_folder_sizes_2level.py and of --folder                 *)
(*   SpecParse   parse_bucket_and_prefix on one argument                   *)
(*   SpecCLI     main of s3_bucket_sizes_cli.py: the loop over the buckets *)
(*   SpecBuckets get_all_bucket_names and the start of main                *)
(***************************************************************************)
EXTENDS Integers, Sequences, FiniteSets, TLC

VARIABLES
    script,        \* which program runs: "fanout", "cloudwatch", ...
    bucket_names,  \* main: the list get_all_bucket_names returned
    metrics,       \* the CloudWatch backend: bucket -> its answers
    main_pc,       \* main: position of the main thread
    submitted,     \* main: number of executor.submit calls made
    work_queue,    \* ThreadPoolExecutor: submitted work items not taken yet
    wpc,           \* per bucket: position of the task processing it
    wsize,         \* per bucket: the local (name, size) of its task, -1 = none
    lock,          \* threading.Lock: 0 = free, else the bucket whose task holds it
    bucket_sizes,  \* main: the list of (name, size)
    arrival,       \* the order in which as_completed handed the futures over
    total_size,    \* main: the TOTAL of the summary, -1 = not printed
    cloudwatch,    \* get_bucket_size_cloudwatch alone: the backend's answers
    cw_result,     \* get_bucket_size_cloudwatch alone: what it returned
    units,         \* format_size alone: the units list of the script
    size_bytes,    \* format_size alone: its argument, in base 1024
    fmt_result,    \* format_size alone: what it returned
    prefix,        \* folder sizes: the Prefix of the listing (folder_path)
    pages,         \* folder sizes: the pages the paginator yields
    page_no,       \* folder sizes: the page the loop is in
    obj_no,        \* folder sizes: objects of that page already processed
    fs_pc,         \* folder sizes: position in the function
    fs_total,      \* get_folder_size_s3: total_size
    object_count,  \* get_folder_size_s3: object_count
    folder_sizes,  \* the dict folder_sizes / subfolder_sizes
    arg,           \* folder scripts: sys.argv[1], '<bucket>[/optional/prefix]'
    bucket,        \* folder scripts: the bucket part of the argument
    depth,         \* s3_folder_sizes_2level.py: --depth=N
    max_subfolders, \* with_folder script: --max-subfolders=N
    listing_calls, \* folder scripts: calls of paginator.paginate made
    exit_code,     \* the exit code of the process, -1 = still running
    printed,       \* what main reported on stdout
    sts,           \* the answer of sts.get_caller_identity
    list_buckets,  \* the answer of s3.list_buckets
    aws_version,   \* the outcome of running 'aws --version'
    aws_ls         \* per bucket: the outcome of running 'aws s3 ls ...'

vars == <<script, bucket_names, metrics, main_pc, submitted, work_queue, wpc,
          wsize, lock, bucket_sizes, arrival, total_size, cloudwatch, cw_result,
          units, size_bytes, fmt_result,
          prefix, pages, page_no, obj_no, fs_pc, fs_total, object_count,
          folder_sizes, arg, bucket, depth, max_subfolders, listing_calls,
          exit_code, printed, sts, list_buckets, aws_version, aws_ls>>

fanout_vars == <<bucket_names, metrics, main_pc, submitted, work_queue, wpc,
                 wsize, lock, bucket_sizes, arrival, total_size>>

cw_vars == <<cloudwatch, cw_result>>

fmt_vars == <<units, size_bytes, fmt_result>>

fs_vars == <<prefix, pages, page_no, obj_no, fs_pc, fs_total, object_count,
             folder_sizes>>

(* The arguments of the main of a folder script.                           *)
args_vars == <<arg, bucket, depth, max_subfolders, listing_calls>>

(* What the process leaves behind.                                         *)
out_vars == <<exit_code, printed>>

(* The services and the external tool the scripts call.                    *)
env_vars == <<sts, list_buckets, aws_version, aws_ls>>

(* What a step of one script leaves alone: the state of the others.        *)
not_fanout_vars == <<cw_vars, fmt_vars, fs_vars, args_vars, out_vars, env_vars>>
not_cw_vars == <<fanout_vars, fmt_vars, fs_vars, args_vars, out_vars, env_vars>>
not_fmt_vars == <<fanout_vars, cw_vars, fs_vars, args_vars, out_vars, env_vars>>
not_fs_vars == <<fanout_vars, cw_vars, fmt_vars, args_vars, out_vars, env_vars>>

----------------------------------------------------------------------------
(* Bounds *)

MaxBuckets == 3          \* buckets in one fan-out run
PoolCap == 2             \* stands for the cap 20 of max_workers, scaled down
MaxAvg == 1              \* Average of a data point ranges over 0..MaxAvg
MaxReportingTiers == 2   \* storage classes with an answer other than "no data"
NearEdge == 5            \* base-1024 digits within NearEdge of 0 and of 1023
PageSize == 2            \* objects in one page of a listing
MaxDepth == 3            \* --depth=N ranges over 0..MaxDepth
MaxShown == 3            \* --max-subfolders=N ranges over 0..MaxShown
MaxArgLen == 5           \* characters of the argument of a folder script

(* Program constants *)

LookbackDays == 2        \* timedelta(days=2) with Period=86400: data points
MinNameLen == 3          \* BUCKET_REGEX: {3,63}
MaxNameLen == 63

Min(a, b) == IF a < b THEN a ELSE b
Max(a, b) == IF a < b THEN b ELSE a

RECURSIVE SumSeq(_)
SumSeq(s) == IF s = <<>> THEN 0 ELSE Head(s) + SumSeq(Tail(s))

----------------------------------------------------------------------------
(* get_bucket_size_cloudwatch *)

storage_classes ==
    <<"StandardStorage", "StandardIAStorage", "ReducedRedundancyStorage",
      "GlacierStorage", "DeepArchiveStorage", "IntelligentTieringFAStorage",
      "IntelligentTieringIAStorage", "IntelligentTieringAAStorage",
      "IntelligentTieringAIAStorage", "IntelligentTieringDAAStorage">>

(* One answer of cloudwatch.get_metric_statistics: the call raises, or it  *)
(* returns response['Datapoints'], a list of [Timestamp, Average]. The     *)
(* Average of BucketSizeBytes is a whole number of bytes.                   *)
Datapoint(ts, avg) == [Timestamp |-> ts, Average |-> avg]
Answer(dps) == [raises |-> FALSE, Datapoints |-> dps]
NoData == Answer(<<>>)
Raises == [raises |-> TRUE, Datapoints |-> <<>>]

(* max(datapoints, key=lambda x: x['Timestamp']): the first element with   *)
(* the greatest key, scanning from the left.                                *)
RECURSIVE MaxFrom(_, _)
MaxFrom(best, rest) ==
    IF rest = <<>> THEN best
    ELSE MaxFrom(IF Head(rest).Timestamp > best.Timestamp THEN Head(rest) ELSE best,
                 Tail(rest))

(* Mutant: takes the last data point of the list, whatever its Timestamp.  *)
latest_is_last(dps) == dps[Len(dps)]

latest(dps) == MaxFrom(Head(dps), Tail(dps))

(* The for loop over storage_classes, from index i with total_size = total *)
(* and the storage types queried so far.                                   *)
RECURSIVE sum_storage_classes(_, _, _, _)
sum_storage_classes(cw, i, total, queried) ==
    IF i > Len(storage_classes)
    THEN [raised |-> FALSE, size |-> total, queried |-> queried]
    ELSE LET response == cw.loop[i]
             q == Append(queried, storage_classes[i])
         IN IF response.raises
            THEN [raised |-> TRUE, size |-> 0, queried |-> q]
            ELSE sum_storage_classes(cw, i + 1,
                     IF response.Datapoints # <<>>
                     THEN total + latest(response.Datapoints).Average
                     ELSE total,
                     q)

(* Mutant: a data point of value 0 counts as no data.                      *)
has_nonzero_datapoint(response) ==
    /\ response.Datapoints # <<>>
    /\ latest(response.Datapoints).Average # 0

(* The condition of line 72: the StandardStorage answer has data points.   *)
has_datapoints(response) == response.Datapoints # <<>>

(* cw = [primary |-> the answer to the first StandardStorage query,         *)
(*       loop |-> the answers to the ten queries of the fallback loop].     *)
(* raised = the except branch ran (it prints the warning and returns 0).   *)
get_bucket_size_cloudwatch(cw) ==
    IF cw.primary.raises
    THEN [raised |-> TRUE, size |-> 0, queried |-> <<"StandardStorage">>]
    ELSE IF has_datapoints(cw.primary)
         THEN [raised |-> FALSE,
               size |-> latest(cw.primary.Datapoints).Average,
               queried |-> <<"StandardStorage">>]
         ELSE sum_storage_classes(cw, 1, 0, <<"StandardStorage">>)

----------------------------------------------------------------------------
(* The backends the runs draw their answers from *)

Tiers == 1..Len(storage_classes)
Averages == 0..MaxAvg

(* Non-empty answers: one data point, or two with different timestamps in  *)
(* either order.                                                            *)
OnePoint == {Answer(<<Datapoint(1, a)>>) : a \in Averages}
TwoPoints ==
    {Answer(<<Datapoint(t, a), Datapoint(LookbackDays + 1 - t, b)>>) :
        t \in 1..LookbackDays, a \in Averages, b \in Averages}
PrimaryAnswers == {Raises, NoData} \cup OnePoint \cup TwoPoints
TierReports ==
    {Raises} \cup OnePoint
    \cup {Answer(<<Datapoint(t, MaxAvg), Datapoint(LookbackDays + 1 - t, 0)>>) :
            t \in 1..LookbackDays}

(* The loop answers in which the storage classes of S report g and the     *)
(* others have no data.                                                     *)
LoopAnswers(S, g) == [t \in Tiers |-> IF t \in S THEN g[t] ELSE NoData]
LoopsUpTo(k) ==
    {LoopAnswers(S, g) :
        <<S, g>> \in UNION {{<<S1, g1>> : g1 \in [S1 -> TierReports]} :
                              S1 \in {S2 \in SUBSET Tiers : Cardinality(S2) <= k}}}

Backends ==
    {[primary |-> p, loop |-> l] : p \in PrimaryAnswers \ {NoData}, l \in LoopsUpTo(1)}
    \cup {[primary |-> NoData, loop |-> l] : l \in LoopsUpTo(MaxReportingTiers)}

(* The backends of the fan-out: the first query raises, or StandardStorage *)
(* has one data point, or only the second storage class has one.           *)
FanoutBackends ==
    {[primary |-> Raises, loop |-> [t \in Tiers |-> NoData]]}
    \cup {[primary |-> Answer(<<Datapoint(1, a)>>), loop |-> [t \in Tiers |-> NoData]] :
            a \in Averages}
    \cup {[primary |-> NoData,
           loop |-> [t \in Tiers |-> IF t = 2 THEN Answer(<<Datapoint(1, MaxAvg)>>)
                                     ELSE NoData]]}

----------------------------------------------------------------------------
(* format_size *)

(* units of s3_bucket_sizes_cli.py, and of the two CloudWatch scripts.     *)
units_cli == <<"B", "KB", "MB", "GB", "TB">>
units_cloudwatch == <<"B", "KB", "MB", "GB", "TB", "PB">>

(* A byte count is the sequence of its base-1024 digits, lowest first      *)
(* (<<0>> is 0, <<0, 1>> is 1024); the highest digit is not 0 unless the   *)
(* count is 0. float(size_bytes) is exact below 2^MantissaBits, and so is  *)
(* each division by 1024: a float is [whole |-> the digits of the integer  *)
(* part, lowest first, frac |-> the base-1024 digits after the point,      *)
(* highest first].                                                          *)
MantissaBits == 53

to_float(n) == [whole |-> n, frac |-> <<>>]

RECURSIVE IntValue(_)
IntValue(whole) ==
    IF whole = <<>> THEN 0 ELSE Head(whole) + 1024 * IntValue(Tail(whole))

(* size >= 1024 *)
at_least_1024(size) == Len(size.whole) > 1

(* size > 1024 *)
more_than_1024(size) ==
    \/ Len(size.whole) > 2
    \/ /\ Len(size.whole) = 2
       /\ \/ size.whole[2] > 1
          \/ size.whole[1] > 0
          \/ \E i \in 1..Len(size.frac) : size.frac[i] > 0

(* size /= 1024 *)
divide_by_1024(size) ==
    [whole |-> IF Len(size.whole) > 1 THEN Tail(size.whole) ELSE <<0>>,
     frac |-> <<Head(size.whole)>> \o size.frac]

(* Mutant: the loop goes on only while size > 1024.                        *)
keeps_dividing_above_1024(size, unit_index, us) ==
    more_than_1024(size) /\ unit_index < Len(us) - 1

(* The condition of the while loop, line 145.                              *)
keeps_dividing(size, unit_index, us) ==
    at_least_1024(size) /\ unit_index < Len(us) - 1

RECURSIVE scale(_, _, _)
scale(size, unit_index, us) ==
    IF keeps_dividing(size, unit_index, us)
    THEN scale(divide_by_1024(size), unit_index + 1, us)
    ELSE [size |-> size, unit_index |-> unit_index]

(* 100 * 0.frac: carry is its integer part, digits the rest.               *)
RECURSIVE Times100(_)
Times100(frac) ==
    IF frac = <<>> THEN [carry |-> 0, digits |-> <<>>]
    ELSE LET r == Times100(Tail(frac))
             x == Head(frac) * 100 + r.carry
         IN [carry |-> x \div 1024, digits |-> <<x % 1024>> \o r.digits]

(* f"{size:.2f}": the exact value rounded to the nearest hundredth, a tie  *)
(* to the even one. The result is the number printed, in hundredths.       *)
round_2_decimals(size) ==
    LET p == Times100(size.frac)
        down == IntValue(size.whole) * 100 + p.carry
        rest == p.digits
        above_half == /\ rest # <<>>
                      /\ \/ Head(rest) > 512
                         \/ /\ Head(rest) = 512
                            /\ \E i \in 2..Len(rest) : rest[i] > 0
        tie == /\ rest # <<>>
               /\ Head(rest) = 512
               /\ \A i \in 2..Len(rest) : rest[i] = 0
    IN IF above_half \/ (tie /\ down % 2 = 1) THEN down + 1 ELSE down

two_digits(k) == IF k < 10 THEN "0" \o ToString(k) ELSE ToString(k)

(* number = the number displayed, in hundredths; decimals = the decimals   *)
(* displayed; scaled = size when the loop ended.                            *)
format_size(n, us) ==
    IF n = <<0>>
    THEN [text |-> "0 B", number |-> 0, unit |-> "B", decimals |-> 0,
          scaled |-> to_float(n)]
    ELSE LET r == scale(to_float(n), 0, us)
             unit == us[r.unit_index + 1]
         IN IF r.unit_index = 0
            THEN [text |-> ToString(IntValue(r.size.whole)) \o " " \o unit,
                  number |-> IntValue(r.size.whole) * 100,
                  unit |-> unit, decimals |-> 0, scaled |-> r.size]
            ELSE LET h == round_2_decimals(r.size)
                 IN [text |-> ToString(h \div 100) \o "." \o two_digits(h % 100)
                               \o " " \o unit,
                     number |-> h, unit |-> unit, decimals |-> 2,
                     scaled |-> r.size]

(* The byte counts format_size is applied to: below 2^MantissaBits, with   *)
(* the two highest digits near 0, 1/8, 3/8, 1/2 or 1 of 1024 and the lower *)
(* digits all 0 or all 1023.                                                *)
EdgeDigits ==
    (0..NearEdge) \cup {128, 384, 512} \cup ((1023 - NearEdge)..1023)
MaxDigits == (MantissaBits \div 10) + 1
TopDigits(len) ==
    IF len = MaxDigits
    THEN {t \in EdgeDigits : t > 0 /\ t < 2 ^ (MantissaBits - 10 * (MaxDigits - 1))}
    ELSE EdgeDigits \ {0}
ByteCounts ==
    {<<0>>}
    \cup {<<t>> : t \in EdgeDigits \ {0}}
    \cup UNION {{[i \in 1..len |-> IF i = len THEN t ELSE IF i = len - 1 THEN s ELSE f] :
                    t \in TopDigits(len), s \in EdgeDigits, f \in {0, 1023}} :
                len \in 2..MaxDigits}

IdleFormat ==
    /\ units = <<>>
    /\ size_bytes = <<0>>
    /\ fmt_result = [returned |-> FALSE]

----------------------------------------------------------------------------
(* The folder sizes by enumeration: get_s3_folder_sizes of                  *)
(* s3_folder_sizes.py and get_folder_size_s3 of                             *)
(* s3_bucket_sizes_with_folder.py. A string is the sequence of its         *)
(* characters.                                                              *)

slash == "/"
root_key == <<"(", "r", "o", "o", "t", ")">>
direct_files_key == <<"(", "a", "r", "c", "h", "i", "v", "o", "s", " ", "d", "i", "r", "e", "c", "t", "o", "s", ")">>

(* key[len(prefix):] *)
strip_nothing(key, pfx) == key

strip_prefix(key, pfx) == SubSeq(key, Len(pfx) + 1, Len(key))

(* '/' in s *)
has_slash(s) == \E i \in 1..Len(s) : s[i] = slash

(* s.split('/')[0] *)
RECURSIVE first_part(_)
first_part(s) ==
    IF s = <<>> \/ Head(s) = slash THEN <<>>
    ELSE <<Head(s)>> \o first_part(Tail(s))

(* s3_folder_sizes.py lines 23-25: the key of folder_sizes.                *)
folder_of(key, pfx) ==
    LET stripped_key == strip_prefix(key, pfx)
    IN IF has_slash(stripped_key) THEN first_part(stripped_key) ELSE root_key

(* s3_bucket_sizes_with_folder.py lines 86-94: the key of subfolder_sizes. *)
subfolder_key_of(key, folder_path) ==
    LET relative_path == strip_prefix(key, folder_path)
    IN IF has_slash(relative_path)
       THEN folder_path \o first_part(relative_path) \o <<slash>>
       ELSE folder_path \o direct_files_key

(* s.split('/') *)
RECURSIVE split(_)
split(s) ==
    IF ~has_slash(s) THEN <<s>>
    ELSE <<first_part(s)>> \o split(SubSeq(s, Len(first_part(s)) + 2, Len(s)))

(* Mutant: the parts are put together without the separator.               *)
RECURSIVE join_without_slash(_)
join_without_slash(parts) ==
    IF parts = <<>> THEN <<>> ELSE Head(parts) \o join_without_slash(Tail(parts))

(* '/'.join(parts) *)
RECURSIVE join(_)
join(parts) ==
    IF parts = <<>> THEN <<>>
    ELSE IF Len(parts) = 1 THEN parts[1]
         ELSE parts[1] \o <<slash>> \o join(Tail(parts))

(* parts[:n], a negative n counting from the end.                          *)
take(parts, n) ==
    SubSeq(parts, 1, IF n < 0 THEN Max(Len(parts) + n, 0) ELSE Min(n, Len(parts)))

(* s3_folder_sizes_2level.py lines 31-37: the key of folder_sizes.         *)
folder_at_depth(key, pfx, d) ==
    LET stripped_key == strip_prefix(key, pfx)
        parts == split(stripped_key)
    IN IF Len(parts) = 1 THEN root_key ELSE join(take(parts, d))

(* dict[key] += size, a missing key starting at 0 (defaultdict(int)).      *)
add_size(d, key, size) ==
    [k \in DOMAIN d \cup {key} |->
        IF k = key THEN (IF key \in DOMAIN d THEN d[key] ELSE 0) + size ELSE d[k]]

(* Mutant: the object that creates a key is not added to it.               *)
add_to_known_keys_only(d, key, size) ==
    [k \in DOMAIN d \cup {key} |->
        IF k = key
        THEN IF key \in DOMAIN d
             THEN [size |-> d[key].size + size, count |-> d[key].count + 1]
             ELSE [size |-> 0, count |-> 0]
        ELSE d[k]]

(* lines 97-101 of s3_bucket_sizes_with_folder.py *)
add_size_and_count(d, key, size) ==
    [k \in DOMAIN d \cup {key} |->
        IF k = key
        THEN IF key \in DOMAIN d
             THEN [size |-> d[key].size + size, count |-> d[key].count + 1]
             ELSE [size |-> size, count |-> 1]
        ELSE d[k]]

(* The listings: list_objects_v2 answers with the keys that start with the *)
(* Prefix, each once, in key order, PageSize to a page; a listing without  *)
(* object is one page without 'Contents'.                                   *)
base_prefix == <<"b", "a", "s", "e", "/">>
RelativeKeys == <<<<"a", "/", "k", "/", "w", ".", "t", "x", "t">>,
                  <<"a", "/", "x", ".", "t", "x", "t">>,
                  <<"a", "/", "y", ".", "t", "x", "t">>,
                  <<"b", ".", "t", "x", "t">>,
                  <<"c", "/", "z", ".", "t", "x", "t">>>>
ExampleSizes == <<-1, 10, 5, 3, 2>>
ObjectSizes == {2, 3, 5, 10}

RECURSIVE Listed(_, _, _)
Listed(pfx, sizes, i) ==
    IF i > Len(RelativeKeys) THEN <<>>
    ELSE (IF sizes[i] < 0 THEN <<>>
          ELSE <<[Key |-> pfx \o RelativeKeys[i], Size |-> sizes[i]]>>)
         \o Listed(pfx, sizes, i + 1)

RECURSIVE Paginate(_)
Paginate(objs) ==
    IF Len(objs) <= PageSize THEN <<[has_contents |-> objs # <<>>, Contents |-> objs]>>
    ELSE <<[has_contents |-> TRUE, Contents |-> SubSeq(objs, 1, PageSize)]>>
         \o Paginate(SubSeq(objs, PageSize + 1, Len(objs)))

Listings(pfx) ==
    {Paginate(Listed(pfx, sizes, 1)) :
        sizes \in [1..Len(RelativeKeys) -> {-1} \cup ObjectSizes]}

ExampleListing == Paginate(Listed(base_prefix, ExampleSizes, 1))

(* Listings without any object: no page at all, or pages without           *)
(* 'Contents'.                                                              *)
no_contents == [has_contents |-> FALSE, Contents |-> <<>>]
EmptyListings == {<<>>, <<no_contents>>, <<no_contents, no_contents>>}

(* The listings the mains are run on: objects of 0 bytes (folder markers)  *)
(* and of 3 bytes.                                                          *)
MainSizes == {0, 3}
MainListings(pfx) ==
    {Paginate(Listed(pfx, sizes, 1)) :
        sizes \in [1..Len(RelativeKeys) -> {-1} \cup MainSizes]}
    \cup EmptyListings

(* All the objects of a listing, in listing order.                         *)
RECURSIVE listed_objects(_)
listed_objects(ps) ==
    IF ps = <<>> THEN <<>> ELSE Head(ps).Contents \o listed_objects(Tail(ps))

(* BUCKET_REGEX = r'^[a-z0-9.\-_]{3,63}$' with re.match: the characters of *)
(* the class, 3 to 63 of them from the start, and then '$', which matches  *)
(* at the end of the string and also before a newline that ends it.        *)
newline == "\n"
lowercase == {"a", "b", "c", "d", "e", "f", "g", "h", "i", "j", "k", "l", "m",
              "n", "o", "p", "q", "r", "s", "t", "u", "v", "w", "x", "y", "z"}
digits == {"0", "1", "2", "3", "4", "5", "6", "7", "8", "9"}
bucket_chars == lowercase \cup digits \cup {".", "-", "_"}

matches_bucket_regex(name) ==
    \E k \in MinNameLen..MaxNameLen :
        /\ k <= Len(name)
        /\ \A i \in 1..k : name[i] \in bucket_chars
        /\ \/ k = Len(name)
           \/ k = Len(name) - 1 /\ name[Len(name)] = newline

(* The bucket arguments the mains are run with.                            *)
Rep(c, n) == [i \in 1..n |-> c]
valid_bucket == <<"v", "a", "l", "i", "d", "-", "b", "u", "c", "k", "e", "t", ".", "n", "a", "m", "e", "_", "1", "2", "3">>
invalid_bucket == <<"A", "B", "_", "i", "n", "v", "a", "l", "i", "d", "_", "U", "P", "P", "E", "R", "!">>
BucketArgs ==
    {valid_bucket, invalid_bucket}
    \cup {Rep("a", n) : n \in {0, MinNameLen - 1, MinNameLen, MaxNameLen, MaxNameLen + 1}}
    \cup {Rep("a", n) \o <<newline>> : n \in {MinNameLen - 1, MinNameLen, MaxNameLen}}
    \cup {<<"a", "b", "c", newline, newline>>, <<newline, "a", "b", "c">>,
          <<"a", "b", "C">>, <<"a", " ", "b">>, <<"a", "b", "c", "!">>,
          <<"-", "_", ".">>, <<"0", "1", "2">>, <<"a", "b", "c", " ">>}

(* str.split('/', 1): at most one cut, at the first '/'.                   *)
split_once(s) ==
    IF has_slash(s)
    THEN LET i == CHOOSE j \in 1..Len(s) :
                     s[j] = slash /\ \A k \in 1..j - 1 : s[k] # slash
         IN <<SubSeq(s, 1, i - 1), SubSeq(s, i + 1, Len(s))>>
    ELSE <<s>>

(* s3_folder_sizes.py lines 30-35, s3_folder_sizes_2level.py lines 42-47   *)
parse_bucket_and_prefix(a) ==
    LET parts == split_once(a)
    IN <<parts[1], IF Len(parts) > 1 THEN parts[2] \o <<slash>> ELSE <<>>>>

(* The arguments of the model: every string of at most MaxArgLen           *)
(* characters out of a letter of a bucket name, a letter of a path and '/'.*)
ArgChars == {"b", "p", slash}
Arguments == UNION {[1..n -> ArgChars] : n \in 0..MaxArgLen}

(* The command line 'bucket' or 'bucket/path' that stands for a bucket and *)
(* a prefix 'path/'.                                                        *)
argument_of(bkt, pfx) ==
    IF pfx = <<>> THEN bkt ELSE bkt \o <<slash>> \o SubSeq(pfx, 1, Len(pfx) - 1)

IdleFolder ==
    /\ prefix = <<>>
    /\ pages = <<>>
    /\ page_no = 0
    /\ obj_no = 0
    /\ fs_pc = "off"
    /\ fs_total = 0
    /\ object_count = 0
    /\ folder_sizes = <<>>

IdleArgs ==
    /\ arg = <<>>
    /\ bucket = <<>>
    /\ depth = 0
    /\ max_subfolders = 0
    /\ listing_calls = 0

(* The process runs and has reported nothing.                              *)
IdleOut ==
    /\ exit_code = -1
    /\ printed = <<>>

IdleEnv ==
    /\ sts = "ok"
    /\ list_buckets = [raises |-> FALSE, Buckets |-> <<>>]
    /\ aws_version = "ok"
    /\ aws_ls = <<>>

----------------------------------------------------------------------------
(* main of s3_bucket_sizes_fast.py: the fan-out *)

Buckets == 1..Len(bucket_names)

(* max_workers = min(20, len(bucket_names)) *)
max_workers == Min(PoolCap, Len(bucket_names))

Running == {b \in Buckets : wpc[b] \in {"query", "warn", "acquire", "print"}}

(* bucket_sizes.sort(key=lambda x: x[1], reverse=True): stable, the        *)
(* entries of equal size keep their order. Insertion from the left.        *)
RECURSIVE InsertDesc(_, _)
InsertDesc(e, s) ==
    IF s = <<>> THEN <<e>>
    ELSE IF e[2] > Head(s)[2] THEN <<e>> \o s
         ELSE <<Head(s)>> \o InsertDesc(e, Tail(s))

RECURSIVE SortFrom(_, _)
SortFrom(done, rest) ==
    IF rest = <<>> THEN done
    ELSE SortFrom(InsertDesc(Head(rest), done), Tail(rest))

RECURSIVE Reverse(_)
Reverse(s) == IF s = <<>> THEN <<>> ELSE Append(Reverse(Tail(s)), Head(s))

(* Mutant: sort ascending, then reverse: equal sizes end up reversed.      *)
sort_asc_then_reverse(s) == SortFrom(<<>>, Reverse(s))

sort_by_size_desc(s) == SortFrom(<<>>, s)

IdleFanout ==
    /\ bucket_names = <<>>
    /\ metrics = <<>>
    /\ main_pc = "off"
    /\ submitted = 0
    /\ work_queue = <<>>
    /\ wpc = <<>>
    /\ wsize = <<>>
    /\ lock = 0
    /\ bucket_sizes = <<>>
    /\ arrival = <<>>
    /\ total_size = -1

IdleCW ==
    /\ cloudwatch = [primary |-> NoData, loop |-> [t \in Tiers |-> NoData]]
    /\ cw_result = [returned |-> FALSE, raised |-> FALSE, size |-> 0, queried |-> <<>>]

(* main has verified the credentials and listed the buckets (line 172).    *)
InitFanout ==
    /\ script = "fanout"
    /\ \E n \in 0..MaxBuckets :
          /\ bucket_names = [i \in 1..n |-> i]
          /\ metrics \in [1..n -> FanoutBackends]
          /\ wpc = [i \in 1..n |-> "new"]
          /\ wsize = [i \in 1..n |-> -1]
    /\ main_pc = "listed"
    /\ submitted = 0
    /\ work_queue = <<>>
    /\ lock = 0
    /\ bucket_sizes = <<>>
    /\ arrival = <<>>
    /\ total_size = -1
    /\ IdleCW
    /\ IdleFormat
    /\ IdleFolder
    /\ IdleArgs
    /\ IdleOut
    /\ IdleEnv

(* lines 174-190: no bucket, return; else set up the run.                  *)
CheckBuckets ==
    /\ script = "fanout"
    /\ main_pc = "listed"
    /\ main_pc' = IF bucket_names = <<>> THEN "done" ELSE "submit"
    /\ UNCHANGED <<script, bucket_names, metrics, submitted, work_queue, wpc, wsize,
                   lock, bucket_sizes, arrival, total_size>>
    /\ UNCHANGED not_fanout_vars

(* lines 196-199: executor.submit of the next args; after the last one the *)
(* main thread enters the as_completed loop.                               *)
Submit ==
    /\ main_pc = "submit"
    /\ submitted < Len(bucket_names)
    /\ submitted' = submitted + 1
    /\ work_queue' = Append(work_queue, submitted + 1)
    /\ wpc' = [wpc EXCEPT ![submitted + 1] = "queued"]
    /\ main_pc' = IF submitted + 1 = Len(bucket_names) THEN "collect" ELSE "submit"
    /\ UNCHANGED <<script, bucket_names, metrics, wsize, lock, bucket_sizes,
                   arrival, total_size>>
    /\ UNCHANGED not_fanout_vars

(* Mutant: a thread per submitted task, no cap.                            *)
can_always_start == TRUE

(* A pool thread takes the oldest work item; the pool has at most          *)
(* max_workers threads, each running one task at a time.                   *)
can_start == Cardinality(Running) < max_workers

Start(b) ==
    /\ work_queue # <<>>
    /\ b = Head(work_queue)
    /\ can_start
    /\ work_queue' = Tail(work_queue)
    /\ wpc' = [wpc EXCEPT ![b] = "query"]
    /\ UNCHANGED <<script, bucket_names, metrics, main_pc, submitted, wsize, lock,
                   bucket_sizes, arrival, total_size>>
    /\ UNCHANGED not_fanout_vars

(* line 127, the try body of get_bucket_size_cloudwatch: it returns the    *)
(* size, or an exception takes the task to the except branch.              *)
Query(b) ==
    /\ b \in Buckets
    /\ wpc[b] = "query"
    /\ LET r == get_bucket_size_cloudwatch(metrics[b])
       IN IF r.raised
          THEN /\ wpc' = [wpc EXCEPT ![b] = "warn"]
               /\ UNCHANGED wsize
          ELSE /\ wpc' = [wpc EXCEPT ![b] = "acquire"]
               /\ wsize' = [wsize EXCEPT ![b] = r.size]
    /\ UNCHANGED <<script, bucket_names, metrics, main_pc, submitted, work_queue,
                   lock, bucket_sizes, arrival, total_size>>
    /\ UNCHANGED not_fanout_vars

(* Mutant: the failure also zeroes the size of every task still running.  *)
Warn_zeroes_siblings(b) ==
    /\ b \in Buckets
    /\ wpc[b] = "warn"
    /\ wpc' = [wpc EXCEPT ![b] = "acquire"]
    /\ wsize' = [c \in Buckets |-> IF c = b \/ wpc[c] \in {"acquire", "print"}
                                   THEN 0 ELSE wsize[c]]
    /\ UNCHANGED <<script, bucket_names, metrics, main_pc, submitted, work_queue,
                   lock, bucket_sizes, arrival, total_size>>
    /\ UNCHANGED not_fanout_vars

(* lines 104-106, the except branch: print the warning, return (name, 0).  *)
Warn(b) ==
    /\ b \in Buckets
    /\ wpc[b] = "warn"
    /\ wpc' = [wpc EXCEPT ![b] = "acquire"]
    /\ wsize' = [wsize EXCEPT ![b] = 0]
    /\ UNCHANGED <<script, bucket_names, metrics, main_pc, submitted, work_queue,
                   lock, bucket_sizes, arrival, total_size>>
    /\ UNCHANGED not_fanout_vars

(* Mutant: the block is entered without waiting for the lock.              *)
lock_not_checked == TRUE

(* line 129: with lock, entered when the lock is free.                     *)
lock_is_free == lock = 0

Acquire(b) ==
    /\ b \in Buckets
    /\ wpc[b] = "acquire"
    /\ lock_is_free
    /\ lock' = b
    /\ wpc' = [wpc EXCEPT ![b] = "print"]
    /\ UNCHANGED <<script, bucket_names, metrics, main_pc, submitted, work_queue,
                   wsize, bucket_sizes, arrival, total_size>>
    /\ UNCHANGED not_fanout_vars

(* Mutant: the task returns without releasing the lock.                    *)
PrintProgress_keeps_lock(b) ==
    /\ b \in Buckets
    /\ wpc[b] = "print"
    /\ wpc' = [wpc EXCEPT ![b] = "finished"]
    /\ UNCHANGED <<script, bucket_names, metrics, main_pc, submitted, work_queue,
                   wsize, lock, bucket_sizes, arrival, total_size>>
    /\ UNCHANGED not_fanout_vars

(* lines 130-132: the progress line is printed, the with block releases    *)
(* the lock and the task returns (name, size): its future is finished.     *)
PrintProgress(b) ==
    /\ b \in Buckets
    /\ wpc[b] = "print"
    /\ lock' = 0
    /\ wpc' = [wpc EXCEPT ![b] = "finished"]
    /\ UNCHANGED <<script, bucket_names, metrics, main_pc, submitted, work_queue,
                   wsize, bucket_sizes, arrival, total_size>>
    /\ UNCHANGED not_fanout_vars

(* lines 202-209: as_completed hands over a finished future; its result is *)
(* appended. No task raises (get_bucket_size_cloudwatch catches every      *)
(* Exception), so future.result() returns.                                 *)
Collect(b) ==
    /\ main_pc = "collect"
    /\ b \in Buckets
    /\ wpc[b] = "finished"
    /\ bucket_sizes' = Append(bucket_sizes, <<bucket_names[b], wsize[b]>>)
    /\ arrival' = Append(arrival, bucket_names[b])
    /\ wpc' = [wpc EXCEPT ![b] = "collected"]
    /\ UNCHANGED <<script, bucket_names, metrics, main_pc, submitted, work_queue,
                   wsize, lock, total_size>>
    /\ UNCHANGED not_fanout_vars

(* Mutant: main leaves the as_completed loop after the first result.       *)
Shutdown_after_first_result ==
    /\ main_pc = "collect"
    /\ \E b \in Buckets : wpc[b] = "collected"
    /\ main_pc' = "sort"
    /\ UNCHANGED <<script, bucket_names, metrics, submitted, work_queue, wpc, wsize,
                   lock, bucket_sizes, arrival, total_size>>
    /\ UNCHANGED not_fanout_vars

(* The as_completed loop ends when every future was handed over; the with  *)
(* block then shuts the pool down.                                         *)
Shutdown ==
    /\ main_pc = "collect"
    /\ \A b \in Buckets : wpc[b] = "collected"
    /\ main_pc' = "sort"
    /\ UNCHANGED <<script, bucket_names, metrics, submitted, work_queue, wpc, wsize,
                   lock, bucket_sizes, arrival, total_size>>
    /\ UNCHANGED not_fanout_vars

(* line 212 *)
Sort ==
    /\ main_pc = "sort"
    /\ bucket_sizes' = sort_by_size_desc(bucket_sizes)
    /\ main_pc' = "summary"
    /\ UNCHANGED <<script, bucket_names, metrics, submitted, work_queue, wpc, wsize,
                   lock, arrival, total_size>>
    /\ UNCHANGED not_fanout_vars

(* lines 219-225 *)
Summary ==
    /\ main_pc = "summary"
    /\ total_size' = SumSeq([i \in 1..Len(bucket_sizes) |-> bucket_sizes[i][2]])
    /\ main_pc' = "done"
    /\ UNCHANGED <<script, bucket_names, metrics, submitted, work_queue, wpc, wsize,
                   lock, bucket_sizes, arrival>>
    /\ UNCHANGED not_fanout_vars

NextFanout ==
    \/ CheckBuckets
    \/ Submit
    \/ \E b \in 1..MaxBuckets + 1 : Start(b)
    \/ \E b \in 1..MaxBuckets + 1 : Query(b)
    \/ \E b \in 1..MaxBuckets + 1 : Warn(b)
    \/ \E b \in 1..MaxBuckets + 1 : Acquire(b)
    \/ \E b \in 1..MaxBuckets + 1 : PrintProgress(b)
    \/ \E b \in 1..MaxBuckets + 1 : Collect(b)
    \/ Shutdown
    \/ Sort
    \/ Summary

SpecFanout == InitFanout /\ [][NextFanout]_vars

(* Fair scheduling: the main thread goes on while it can take a step, and  *)
(* so does the pool thread that runs the task of a bucket. A task waiting  *)
(* for the lock can take a step only while the lock is free.               *)
MainThread ==
    \/ CheckBuckets
    \/ Submit
    \/ \E b \in 1..MaxBuckets + 1 : Collect(b)
    \/ Shutdown
    \/ Sort
    \/ Summary

Task(b) ==
    \/ Start(b)
    \/ Query(b)
    \/ Warn(b)
    \/ Acquire(b)
    \/ PrintProgress(b)

FairScheduling ==
    /\ WF_vars(MainThread)
    /\ \A b \in 1..MaxBuckets + 1 : WF_vars(Task(b))

SpecFanoutFair == InitFanout /\ [][NextFanout]_vars /\ FairScheduling

----------------------------------------------------------------------------
(* get_bucket_size_cloudwatch on one bucket *)

InitCW ==
    /\ script = "cloudwatch"
    /\ cloudwatch \in Backends
    /\ cw_result = [returned |-> FALSE, raised |-> FALSE, size |-> 0, queried |-> <<>>]
    /\ IdleFanout
    /\ IdleFormat
    /\ IdleFolder
    /\ IdleArgs
    /\ IdleOut
    /\ IdleEnv

CallCloudwatch ==
    /\ script = "cloudwatch"
    /\ ~cw_result.returned
    /\ LET r == get_bucket_size_cloudwatch(cloudwatch)
       IN cw_result' = [returned |-> TRUE, raised |-> r.raised, size |-> r.size,
                        queried |-> r.queried]
    /\ UNCHANGED <<script, cloudwatch>>
    /\ UNCHANGED not_cw_vars

NextCW == CallCloudwatch

SpecCW == InitCW /\ [][NextCW]_vars

----------------------------------------------------------------------------
(* format_size on one byte count *)

InitFormat ==
    /\ script = "format_size"
    /\ units \in {units_cli, units_cloudwatch}
    /\ size_bytes \in ByteCounts
    /\ fmt_result = [returned |-> FALSE]
    /\ IdleFanout
    /\ IdleCW
    /\ IdleFolder
    /\ IdleArgs
    /\ IdleOut
    /\ IdleEnv

CallFormatSize ==
    /\ script = "format_size"
    /\ ~fmt_result.returned
    /\ LET r == format_size(size_bytes, units)
       IN fmt_result' = [returned |-> TRUE, text |-> r.text, number |-> r.number,
                         unit |-> r.unit, decimals |-> r.decimals,
                         scaled |-> r.scaled]
    /\ UNCHANGED <<script, units, size_bytes>>
    /\ UNCHANGED not_fmt_vars

NextFormat == CallFormatSize

SpecFormat == InitFormat /\ [][NextFormat]_vars

----------------------------------------------------------------------------
(* The folder sizes of one listing *)

(* The call get_s3_folder_sizes(bucket, prefix) of s3_folder_sizes.py or   *)
(* get_folder_size_s3(bucket, folder_path) of the with_folder script, with *)
(* folder_path already ending in '/'.                                      *)
InitFolder ==
    /\ script \in {"folder_sizes", "with_folder"}
    /\ prefix \in {<<>>, base_prefix}
    /\ pages \in Listings(prefix)
    /\ page_no = 1
    /\ obj_no = 0
    /\ fs_pc = "loop"
    /\ fs_total = 0
    /\ object_count = 0
    /\ folder_sizes = <<>>
    /\ IdleFanout
    /\ IdleCW
    /\ IdleFormat
    /\ IdleArgs
    /\ IdleOut
    /\ IdleEnv

(* One round of the inner for loop: the next object of the page.           *)
ProcessObject ==
    /\ fs_pc = "loop"
    /\ page_no <= Len(pages)
    /\ pages[page_no].has_contents
    /\ obj_no < Len(pages[page_no].Contents)
    /\ LET obj == pages[page_no].Contents[obj_no + 1]
       IN IF script = "folder_sizes"
          THEN /\ folder_sizes' = add_size(folder_sizes, folder_of(obj.Key, prefix), obj.Size)
               /\ UNCHANGED <<fs_total, object_count>>
          ELSE IF script = "folder_2level"
          THEN /\ folder_sizes' = add_size(folder_sizes,
                                      folder_at_depth(obj.Key, prefix, depth), obj.Size)
               /\ UNCHANGED <<fs_total, object_count>>
          ELSE /\ fs_total' = fs_total + obj.Size
               /\ object_count' = object_count + 1
               /\ folder_sizes' = add_size_and_count(folder_sizes,
                                      subfolder_key_of(obj.Key, prefix), obj.Size)
    /\ obj_no' = obj_no + 1
    /\ UNCHANGED <<script, prefix, pages, page_no, fs_pc>>
    /\ UNCHANGED not_fs_vars

(* The page is done, or has no 'Contents': the outer loop goes on.         *)
NextPage ==
    /\ fs_pc = "loop"
    /\ page_no <= Len(pages)
    /\ pages[page_no].has_contents => obj_no = Len(pages[page_no].Contents)
    /\ page_no' = page_no + 1
    /\ obj_no' = 0
    /\ UNCHANGED <<script, prefix, pages, fs_pc, fs_total, object_count, folder_sizes>>
    /\ UNCHANGED not_fs_vars

(* No page is left: return.                                                *)
ReturnSizes ==
    /\ fs_pc = "loop"
    /\ page_no > Len(pages)
    /\ fs_pc' = "returned"
    /\ UNCHANGED <<script, prefix, pages, page_no, obj_no, fs_total, object_count,
                   folder_sizes>>
    /\ UNCHANGED not_fs_vars

(* Mutant: the except branch returns what was accumulated so far.          *)
returns_partial_totals(total, count, sizes) ==
    [total_size |-> total, object_count |-> count, subfolder_sizes |-> sizes]

(* s3_bucket_sizes_with_folder.py line 111: return folder_path, 0, 0, {}   *)
except_return(total, count, sizes) ==
    [total_size |-> 0, object_count |-> 0, subfolder_sizes |-> <<>>]

(* s3_bucket_sizes_with_folder.py lines 76, 109-111: the request for the   *)
(* next page raises (any page, the first included, after the pages that    *)
(* were delivered); the except branch of get_folder_size_s3 prints the     *)
(* error and returns. The two folder scripts have no such branch.          *)
ListingFails ==
    /\ script = "with_folder"
    /\ fs_pc = "loop"
    /\ obj_no = 0
    /\ LET returned == except_return(fs_total, object_count, folder_sizes)
       IN /\ fs_total' = returned.total_size
          /\ object_count' = returned.object_count
          /\ folder_sizes' = returned.subfolder_sizes
    /\ printed' = Append(printed, [line |-> "error", folder_path |-> prefix])
    /\ fs_pc' = "failed"
    /\ UNCHANGED <<script, prefix, pages, page_no, obj_no>>
    /\ UNCHANGED <<fanout_vars, cw_vars, fmt_vars, args_vars, exit_code, env_vars>>

NextFolder == ProcessObject \/ NextPage \/ ReturnSizes \/ ListingFails

SpecFolder == InitFolder /\ [][NextFolder]_vars

----------------------------------------------------------------------------
(* The mains of the folder scripts: s3_folder_sizes.py,                     *)
(* s3_folder_sizes_2level.py and the --folder mode of                       *)
(* s3_bucket_sizes_with_folder.py                                           *)

(* The key the running script gives an object.                             *)
grouping_key(key) ==
    IF script = "with_folder" THEN subfolder_key_of(key, prefix)
    ELSE IF script = "folder_2level" THEN folder_at_depth(key, prefix, depth)
    ELSE folder_of(key, prefix)

(* The keys of a dict are kept in the order of their insertion.            *)
RECURSIVE first_seen(_, _)
first_seen(keys, seen) ==
    IF keys = <<>> THEN seen
    ELSE first_seen(Tail(keys),
                    IF \E i \in 1..Len(seen) : seen[i] = Head(keys)
                    THEN seen ELSE Append(seen, Head(keys)))

dict_keys ==
    LET objs == listed_objects(pages)
    IN first_seen([i \in 1..Len(objs) |-> grouping_key(objs[i].Key)], <<>>)

(* sizes.items() / subfolder_sizes.items() as (key, size, count).           *)
items ==
    [i \in 1..Len(dict_keys) |->
        LET k == dict_keys[i]
        IN IF script = "with_folder"
           THEN <<k, folder_sizes[k].size, folder_sizes[k].count>>
           ELSE <<k, folder_sizes[k], 0>>]

(* The script was started with a bucket argument and, for the 2-level      *)
(* script, without --output; the with_folder script was started with       *)
(* --folder and has verified the credentials. Either the bucket argument   *)
(* varies over a fixed listing, or the listing varies for one bucket.      *)
InitFolderMain ==
    /\ script \in {"folder_sizes", "folder_2level", "with_folder"}
    /\ prefix \in {<<>>, base_prefix}
    /\ \/ /\ script # "with_folder"
          /\ bucket \in BucketArgs
          /\ pages \in {ExampleListing, <<no_contents>>}
       \/ /\ bucket = valid_bucket
          /\ pages \in MainListings(prefix)
    /\ depth \in (IF script = "folder_2level" THEN 0..MaxDepth ELSE {0})
    /\ arg = argument_of(bucket, prefix)
    /\ max_subfolders \in (IF script = "with_folder" THEN 0..MaxShown ELSE {0})
    /\ listing_calls = 0
    /\ page_no = 1
    /\ obj_no = 0
    /\ fs_pc = "main"
    /\ fs_total = 0
    /\ object_count = 0
    /\ folder_sizes = <<>>
    /\ IdleFanout
    /\ IdleCW
    /\ IdleFormat
    /\ IdleOut
    /\ IdleEnv

(* s3_folder_sizes.py lines 44-52, s3_folder_sizes_2level.py lines 66-74:  *)
(* the bucket is validated, then the enumeration is called.                *)
ValidateBucket ==
    /\ script \in {"folder_sizes", "folder_2level"}
    /\ fs_pc = "main"
    /\ IF matches_bucket_regex(bucket)
       THEN /\ printed' = Append(printed, [line |-> "analysing"])
            /\ listing_calls' = listing_calls + 1
            /\ fs_pc' = "loop"
            /\ UNCHANGED exit_code
       ELSE /\ printed' = Append(printed, [line |-> "invalid_bucket"])
            /\ exit_code' = 1
            /\ fs_pc' = "exited"
            /\ UNCHANGED listing_calls
    /\ UNCHANGED <<script, prefix, pages, page_no, obj_no, fs_total, object_count,
                   folder_sizes, arg, bucket, depth, max_subfolders>>
    /\ UNCHANGED <<fanout_vars, cw_vars, fmt_vars, env_vars>>

(* s3_bucket_sizes_with_folder.py lines 287-296 *)
AnalyzeFolder ==
    /\ script = "with_folder"
    /\ fs_pc = "main"
    /\ printed' = Append(printed, [line |-> "analysing"])
    /\ listing_calls' = listing_calls + 1
    /\ fs_pc' = "loop"
    /\ UNCHANGED <<script, prefix, pages, page_no, obj_no, fs_total, object_count,
                   folder_sizes, arg, bucket, depth, max_subfolders, exit_code>>
    /\ UNCHANGED <<fanout_vars, cw_vars, fmt_vars, env_vars>>

(* s3_folder_sizes.py lines 54-59, s3_folder_sizes_2level.py lines 76-81:  *)
(* "no objects", or one line per folder, the largest first; the script     *)
(* ends with exit code 0.                                                   *)
ReportSizes ==
    /\ script \in {"folder_sizes", "folder_2level"}
    /\ fs_pc = "returned"
    /\ exit_code = -1
    /\ LET sorted == sort_by_size_desc(items)
       IN printed' = printed \o
             (IF DOMAIN folder_sizes = {}
              THEN <<[line |-> "no_objects"]>>
              ELSE [i \in 1..Len(sorted) |->
                       [line |-> "folder", folder |-> sorted[i][1],
                        total_size |-> sorted[i][2]]])
    /\ exit_code' = 0
    /\ fs_pc' = "exited"
    /\ UNCHANGED <<script, prefix, pages, page_no, obj_no, fs_total, object_count,
                   folder_sizes, arg, bucket, depth, max_subfolders, listing_calls>>
    /\ UNCHANGED <<fanout_vars, cw_vars, fmt_vars, env_vars>>

(* Mutant: the average is computed whatever the object count.              *)
always_prints_average == TRUE

(* line 305 *)
prints_average == object_count > 0

(* line 350 *)
prints_remaining(sorted_subfolders, remaining_size) == remaining_size > 0

(* s3_bucket_sizes_with_folder.py lines 298-357: the result, the average   *)
(* (total_size / object_count raises ZeroDivisionError for no object), and *)
(* the breakdown: the first max_subfolders rows of the subfolders sorted   *)
(* by size, the others summed up in one line.                              *)
ReportFolder ==
    /\ script = "with_folder"
    /\ fs_pc \in {"returned", "failed"}
    /\ exit_code = -1
    /\ LET sorted_subfolders == sort_by_size_desc(items)
           displayed_count == Min(Len(sorted_subfolders), Max(max_subfolders, 0))
           rest == SubSeq(sorted_subfolders, displayed_count + 1, Len(sorted_subfolders))
           remaining_size == SumSeq([i \in 1..Len(rest) |-> rest[i][2]])
           remaining_count == SumSeq([i \in 1..Len(rest) |-> rest[i][3]])
           result == [line |-> "result", total_size |-> fs_total,
                      object_count |-> object_count]
           average == [line |-> "average",
                       avg_size |-> fs_total \div Max(object_count, 1)]
           rows == [i \in 1..displayed_count |->
                       [line |-> "subfolder", subfolder_path |-> sorted_subfolders[i][1],
                        size |-> sorted_subfolders[i][2],
                        count |-> sorted_subfolders[i][3]]]
           remaining == [line |-> "remaining",
                         remaining_folders |-> Len(sorted_subfolders) - max_subfolders,
                         size |-> remaining_size, count |-> remaining_count]
       IN IF prints_average /\ object_count = 0
          THEN /\ printed' = Append(printed, result)
               /\ exit_code' = 1
          ELSE /\ printed' = printed \o <<result>>
                     \o (IF prints_average THEN <<average>> ELSE <<>>)
                     \o (IF DOMAIN folder_sizes = {} THEN <<>>
                         ELSE <<[line |-> "breakdown"]>> \o rows
                              \o (IF prints_remaining(sorted_subfolders, remaining_size)
                                  THEN <<remaining>> ELSE <<>>))
               /\ exit_code' = 0
    /\ fs_pc' = "exited"
    /\ UNCHANGED <<script, prefix, pages, page_no, obj_no, fs_total, object_count,
                   folder_sizes, arg, bucket, depth, max_subfolders, listing_calls>>
    /\ UNCHANGED <<fanout_vars, cw_vars, fmt_vars, env_vars>>

NextFolderMain ==
    \/ ValidateBucket
    \/ AnalyzeFolder
    \/ ProcessObject
    \/ NextPage
    \/ ReturnSizes
    \/ ListingFails
    \/ ReportSizes
    \/ ReportFolder

SpecFolderMain == InitFolderMain /\ [][NextFolderMain]_vars

----------------------------------------------------------------------------
(* The argument of the folder scripts *)

(* s3_folder_sizes.py lines 37-42, s3_folder_sizes_2level.py lines 49-64:  *)
(* the script was started with an argument and is about to parse it.       *)
InitParse ==
    /\ script \in {"folder_sizes", "folder_2level"}
    /\ arg \in Arguments
    /\ bucket = <<>>
    /\ depth = 0
    /\ max_subfolders = 0
    /\ listing_calls = 0
    /\ prefix = <<>>
    /\ pages = <<>>
    /\ page_no = 0
    /\ obj_no = 0
    /\ fs_pc = "argv"
    /\ fs_total = 0
    /\ object_count = 0
    /\ folder_sizes = <<>>
    /\ IdleFanout
    /\ IdleCW
    /\ IdleFormat
    /\ IdleOut
    /\ IdleEnv

(* s3_folder_sizes.py line 42, s3_folder_sizes_2level.py line 64:          *)
(* bucket, prefix = parse_bucket_and_prefix(arg)                           *)
ParseArgument ==
    /\ script \in {"folder_sizes", "folder_2level"}
    /\ fs_pc = "argv"
    /\ LET parsed == parse_bucket_and_prefix(arg)
       IN /\ bucket' = parsed[1]
          /\ prefix' = parsed[2]
    /\ fs_pc' = "main"
    /\ UNCHANGED <<script, pages, page_no, obj_no, fs_total, object_count,
                   folder_sizes, arg, depth, max_subfolders, listing_calls>>
    /\ UNCHANGED <<fanout_vars, cw_vars, fmt_vars, out_vars, env_vars>>

NextParse == ParseArgument

SpecParse == InitParse /\ [][NextParse]_vars

----------------------------------------------------------------------------
(* s3_bucket_sizes_cli.py: the sizes through the external tool 'aws'        *)

(* re.search(r'Total Size:\s+(\d+)', output): the first place where the    *)
(* label is followed by white space and then by digits.                    *)
total_size_label == <<"T", "o", "t", "a", "l", " ", "S", "i", "z", "e", ":">>
whitespace == {" ", "\t", newline}
digit_chars == <<"0", "1", "2", "3", "4", "5", "6", "7", "8", "9">>

(* The index after the longest run of characters of the set from i on.     *)
RECURSIVE run_end(_, _, _)
run_end(s, i, set) ==
    IF i <= Len(s) /\ s[i] \in set THEN run_end(s, i + 1, set) ELSE i

match_at(s, i) ==
    LET a == i + Len(total_size_label)
        b == run_end(s, a, whitespace)
        c == run_end(s, b, digits)
    IN [found |-> /\ a - 1 <= Len(s)
                  /\ SubSeq(s, i, a - 1) = total_size_label
                  /\ b > a
                  /\ c > b,
        group |-> SubSeq(s, b, c - 1)]

search_total_size(output) ==
    LET hits == {i \in 1..Len(output) : match_at(output, i).found}
    IN IF hits = {} THEN [found |-> FALSE, group |-> <<>>]
       ELSE match_at(output, CHOOSE i \in hits : \A j \in hits : i <= j)

(* int(size_match.group(1)) *)
digit_value(c) == CHOOSE v \in 0..9 : digit_chars[v + 1] = c
RECURSIVE to_int(_)
to_int(ds) ==
    IF ds = <<>> THEN 0
    ELSE to_int(SubSeq(ds, 1, Len(ds) - 1)) * 10 + digit_value(ds[Len(ds)])

(* What the tool prints for a number.                                      *)
RECURSIVE int_to_digits(_)
int_to_digits(n) ==
    IF n < 10 THEN <<digit_chars[n + 1]>>
    ELSE int_to_digits(n \div 10) \o <<digit_chars[(n % 10) + 1]>>

(* The output of 'aws s3 ls s3://bucket/ --recursive --summarize': one     *)
(* line per object, then the summary.                                      *)
listing_line(size, key) ==
    <<"2", "0", "2", "4", "-", "0", "1", "-", "0", "1", " ", "1", "0", ":", "0", "0", ":", "0", "0", " ">> \o int_to_digits(size) \o <<" ">> \o key \o <<newline>>
total_objects_line(n) ==
    <<newline>> \o <<"T", "o", "t", "a", "l", " ", "O", "b", "j", "e", "c", "t", "s", ":", " ">> \o int_to_digits(n) \o <<newline>>
total_size_line(size) ==
    <<" ", " ", " ">> \o total_size_label \o <<" ">> \o int_to_digits(size) \o <<newline>>
summarized(n, size) ==
    (IF n = 0 THEN <<>> ELSE listing_line(size, RelativeKeys[2]))
    \o total_objects_line(n) \o total_size_line(size)

(* The outcomes of one run of the tool: it is not found, it times out,     *)
(* subprocess.run raises something else, or it completes with a return     *)
(* code and an output; reported is the number of the 'Total Size:' line    *)
(* the tool printed, -1 when it printed none.                               *)
Completed(rc, out, size) ==
    [kind |-> "completed", returncode |-> rc, stdout |-> out, reported |-> size]
ReportedSizes == {0, 7, 1024, 1048576}
LsOutcomes ==
    {[kind |-> k, returncode |-> -1, stdout |-> <<>>, reported |-> -1] :
        k \in {"not_found", "timeout", "error"}}
    \cup {Completed(0, summarized(IF size = 0 THEN 0 ELSE 1, size), size) :
            size \in ReportedSizes}
    \cup {Completed(0, <<>>, -1), Completed(0, total_objects_line(0), -1),
          Completed(1, <<>>, -1), Completed(1, summarized(1, 7), 7)}

(* The buckets of the account, in the order list_buckets gives them.       *)
BucketPool ==
    <<<<"d", "a", "t", "a">>,
      <<"a", "p", "p", "-", "l", "o", "g", "s">>,
      <<"d", "b", "-", "1">>,
      <<"M", "y", "-", "L", "i", "f", "e", "c", "y", "c", "l", "e", "-", "R", "u", "l", "e", "s">>,
      <<"d", "b", "x">>,
      <<"b", "l", "o", "g", "-", "s", "t", "o", "r", "e">>>>

(* Mutant: the generic handler comes first and takes every exception.      *)
generic_handler_first(kind) == "Exception"

(* lines 47-55: the except clause that handles what subprocess.run raised. *)
handler_of(kind) ==
    IF kind = "timeout" THEN "TimeoutExpired"
    ELSE IF kind = "not_found" THEN "FileNotFoundError"
    ELSE "Exception"

(* Mutant: the return code is not looked at.                               *)
size_whatever_returncode(result) ==
    LET size_match == search_total_size(result.stdout)
    IN IF size_match.found THEN to_int(size_match.group) ELSE 0

(* lines 33-45: the size get_bucket_size_cli returns for a completed run.  *)
size_of_completed(result) ==
    IF result.returncode # 0 THEN 0
    ELSE LET size_match == search_total_size(result.stdout)
         IN IF size_match.found THEN to_int(size_match.group) ELSE 0

(* main is started; the tool and S3 answer as the environment says.        *)
InitCLI ==
    /\ script = "cli"
    /\ aws_version \in {"ok", "nonzero", "not_found"}
    /\ list_buckets \in
          {[raises |-> TRUE, Buckets |-> <<>>]}
          \cup {[raises |-> FALSE, Buckets |-> SubSeq(BucketPool, 1, n)] :
                  n \in 0..MaxBuckets}
    /\ aws_ls \in [1..Len(list_buckets.Buckets) -> LsOutcomes]
    /\ sts = "ok"
    /\ main_pc = "check"
    /\ bucket_names = <<>>
    /\ metrics = <<>>
    /\ submitted = 0
    /\ work_queue = <<>>
    /\ wpc = <<>>
    /\ wsize = <<>>
    /\ lock = 0
    /\ bucket_sizes = <<>>
    /\ arrival = <<>>
    /\ total_size = -1
    /\ IdleCW
    /\ IdleFormat
    /\ IdleFolder
    /\ IdleArgs
    /\ IdleOut

(* lines 99-101 with check_aws_cli: without the tool the process exits     *)
(* with code 1.                                                             *)
CheckAwsCli ==
    /\ script = "cli"
    /\ main_pc = "check"
    /\ IF aws_version = "ok"
       THEN /\ printed' = Append(printed, [line |-> "version"])
            /\ main_pc' = "list"
            /\ UNCHANGED exit_code
       ELSE /\ printed' = Append(printed,
                   [line |-> IF aws_version = "not_found"
                             THEN "not_installed" ELSE "not_available"])
            /\ exit_code' = 1
            /\ main_pc' = "done"
    /\ UNCHANGED <<script, bucket_names, metrics, submitted, work_queue, wpc, wsize,
                   lock, bucket_sizes, arrival, total_size>>
    /\ UNCHANGED <<cw_vars, fmt_vars, fs_vars, args_vars, env_vars>>

(* lines 103-112 with get_all_bucket_names (lines 9-19): an exception of   *)
(* list_buckets is printed and gives the empty list; without buckets main  *)
(* prints that none was found and returns.                                 *)
GetBucketNames ==
    /\ script = "cli"
    /\ main_pc = "list"
    /\ LET names == IF list_buckets.raises THEN <<>> ELSE list_buckets.Buckets
           error == IF list_buckets.raises THEN <<[line |-> "list_error"]>> ELSE <<>>
       IN /\ bucket_names' = names
          /\ IF names = <<>>
             THEN /\ printed' = printed \o error \o <<[line |-> "no_buckets"]>>
                  /\ exit_code' = 0
                  /\ main_pc' = "done"
             ELSE /\ printed' = printed \o error
                        \o <<[line |-> "found", buckets |-> Len(names)]>>
                  /\ main_pc' = "loop"
                  /\ UNCHANGED exit_code
    /\ UNCHANGED <<script, metrics, submitted, work_queue, wpc, wsize, lock,
                   bucket_sizes, arrival, total_size>>
    /\ UNCHANGED <<cw_vars, fmt_vars, fs_vars, args_vars, env_vars>>

(* One round of the loop of lines 116-120 with get_bucket_size_cli: the    *)
(* tool is run on the next bucket. FileNotFoundError ends the process      *)
(* (sys.exit(1) in the handler); any other outcome gives an entry.         *)
RunAwsLs ==
    /\ script = "cli"
    /\ main_pc = "loop"
    /\ Len(bucket_sizes) < Len(bucket_names)
    /\ LET i == Len(bucket_sizes) + 1
           bucket_name == bucket_names[i]
           result == aws_ls[i]
           size == IF result.kind = "completed" THEN size_of_completed(result) ELSE 0
           warning ==
               IF result.kind = "completed"
               THEN IF result.returncode # 0
                    THEN <<[line |-> "access_error", bucket |-> bucket_name]>>
                    ELSE <<>>
               ELSE IF handler_of(result.kind) = "TimeoutExpired"
                    THEN <<[line |-> "timeout", bucket |-> bucket_name]>>
                    ELSE <<[line |-> "error", bucket |-> bucket_name]>>
       IN IF result.kind # "completed" /\ handler_of(result.kind) = "FileNotFoundError"
          THEN /\ printed' = Append(printed, [line |-> "not_installed"])
               /\ exit_code' = 1
               /\ main_pc' = "done"
               /\ UNCHANGED bucket_sizes
          ELSE /\ bucket_sizes' = Append(bucket_sizes, <<bucket_name, size>>)
               /\ printed' = printed \o warning
                     \o <<[line |-> "progress", bucket |-> bucket_name, size |-> size]>>
               /\ UNCHANGED <<exit_code, main_pc>>
    /\ UNCHANGED <<script, bucket_names, metrics, submitted, work_queue, wpc, wsize,
                   lock, arrival, total_size>>
    /\ UNCHANGED <<cw_vars, fmt_vars, fs_vars, args_vars, env_vars>>

(* The loop is over.                                                        *)
LoopDone ==
    /\ script = "cli"
    /\ main_pc = "loop"
    /\ Len(bucket_sizes) = Len(bucket_names)
    /\ main_pc' = "sort"
    /\ UNCHANGED <<script, bucket_names, metrics, submitted, work_queue, wpc, wsize,
                   lock, bucket_sizes, arrival, total_size>>
    /\ UNCHANGED not_fanout_vars

(* lines 125-136: the summary; main returns, the exit code is 0.           *)
SummaryCli ==
    /\ script = "cli"
    /\ main_pc = "summary"
    /\ total_size' = SumSeq([i \in 1..Len(bucket_sizes) |-> bucket_sizes[i][2]])
    /\ printed' = Append(printed, [line |-> "summary", rows |-> bucket_sizes,
                                   total |-> total_size'])
    /\ exit_code' = 0
    /\ main_pc' = "done"
    /\ UNCHANGED <<script, bucket_names, metrics, submitted, work_queue, wpc, wsize,
                   lock, bucket_sizes, arrival>>
    /\ UNCHANGED <<cw_vars, fmt_vars, fs_vars, args_vars, env_vars>>

(* Sort is line 123, the same statement as line 212 of the fan-out.        *)
NextCLI ==
    \/ CheckAwsCli
    \/ GetBucketNames
    \/ RunAwsLs
    \/ LoopDone
    \/ Sort
    \/ SummaryCli

SpecCLI == InitCLI /\ [][NextCLI]_vars

----------------------------------------------------------------------------
(* get_all_bucket_names and the start of main in s3_bucket_sizes_fast.py   *)
(* and s3_bucket_sizes_with_folder.py                                       *)

upper_letters == <<"A", "B", "C", "D", "E", "F", "G", "H", "I", "J", "K", "L", "M", "N", "O", "P", "Q", "R", "S", "T", "U", "V", "W", "X", "Y", "Z">>
lower_letters == <<"a", "b", "c", "d", "e", "f", "g", "h", "i", "j", "k", "l", "m", "n", "o", "p", "q", "r", "s", "t", "u", "v", "w", "x", "y", "z">>

(* str.lower() on one character, letters A-Z only.                         *)
lower_char(c) ==
    IF \E i \in 1..Len(upper_letters) : upper_letters[i] = c
    THEN lower_letters[CHOOSE i \in 1..Len(upper_letters) : upper_letters[i] = c]
    ELSE c

lower(name) == [i \in 1..Len(name) |-> lower_char(name[i])]

(* sub in s *)
RECURSIVE contains(_, _)
contains(s, sub) ==
    IF Len(s) < Len(sub) THEN FALSE
    ELSE IF SubSeq(s, 1, Len(sub)) = sub THEN TRUE
    ELSE contains(Tail(s), sub)

(* s3_bucket_sizes_fast.py lines 23-35: the three tests on the lowercased  *)
(* name; re.match(r'.*db-.*', name) finds 'db-' anywhere in a name of one  *)
(* line.                                                                    *)
skipped(name) ==
    LET bucket_name == lower(name)
    IN \/ contains(bucket_name, <<"l", "i", "f", "e", "c", "y", "c", "l", "e">>)
       \/ contains(bucket_name, <<"l", "o", "g", "s">>)
       \/ contains(bucket_name, <<"d", "b", "-">>)

(* In s3_bucket_sizes_with_folder.py (lines 25-35) the three tests are     *)
(* commented out: every bucket is appended.                                *)
get_all_bucket_names(scr, answer) ==
    LET kept(name) == ~skipped(name)
    IN IF answer.raises THEN <<>>
       ELSE IF scr = "fast" THEN SelectSeq(answer.Buckets, kept)
       ELSE answer.Buckets

(* The lists of up to MaxBuckets buckets of the pool, in any order.        *)
BucketLists ==
    UNION {[1..n -> {BucketPool[i] : i \in 1..Len(BucketPool)}] : n \in 0..MaxBuckets}

InitBuckets ==
    /\ script \in {"fast", "with_folder"}
    /\ sts \in {"ok", "fails"}
    /\ list_buckets \in
          {[raises |-> TRUE, Buckets |-> <<>>]}
          \cup {[raises |-> FALSE, Buckets |-> bs] : bs \in BucketLists}
    /\ aws_version = "ok"
    /\ aws_ls = <<>>
    /\ IdleFanout
    /\ IdleCW
    /\ IdleFormat
    /\ IdleFolder
    /\ IdleArgs
    /\ IdleOut

(* lines 158-168: without credentials the process exits with code 1.       *)
VerifyCredentials ==
    /\ script \in {"fast", "with_folder"}
    /\ main_pc = "off"
    /\ IF sts = "ok"
       THEN /\ printed' = Append(printed, [line |-> "credentials_verified"])
            /\ main_pc' = "list"
            /\ UNCHANGED exit_code
       ELSE /\ printed' = Append(printed, [line |-> "credentials_error"])
            /\ exit_code' = 1
            /\ main_pc' = "done"
    /\ UNCHANGED <<script, bucket_names, metrics, submitted, work_queue, wpc, wsize,
                   lock, bucket_sizes, arrival, total_size>>
    /\ UNCHANGED <<cw_vars, fmt_vars, fs_vars, args_vars, env_vars>>

(* lines 170-172 *)
ListBuckets ==
    /\ script \in {"fast", "with_folder"}
    /\ main_pc = "list"
    /\ bucket_names' = get_all_bucket_names(script, list_buckets)
    /\ printed' = printed \o
          (IF list_buckets.raises THEN <<[line |-> "list_error"]>> ELSE <<>>)
    /\ main_pc' = "listed"
    /\ UNCHANGED <<script, metrics, submitted, work_queue, wpc, wsize, lock,
                   bucket_sizes, arrival, total_size, exit_code>>
    /\ UNCHANGED <<cw_vars, fmt_vars, fs_vars, args_vars, env_vars>>

(* lines 174-176: without buckets main says so and returns; with buckets   *)
(* the fan-out follows.                                                     *)
NoBucketsFound ==
    /\ script \in {"fast", "with_folder"}
    /\ main_pc = "listed"
    /\ bucket_names = <<>>
    /\ printed' = Append(printed, [line |-> "no_buckets"])
    /\ exit_code' = 0
    /\ main_pc' = "done"
    /\ UNCHANGED <<script, bucket_names, metrics, submitted, work_queue, wpc, wsize,
                   lock, bucket_sizes, arrival, total_size>>
    /\ UNCHANGED <<cw_vars, fmt_vars, fs_vars, args_vars, env_vars>>

NextBuckets == VerifyCredentials \/ ListBuckets \/ NoBucketsFound

SpecBuckets == InitBuckets /\ [][NextBuckets]_vars

----------------------------------------------------------------------------
(* Properties *)

(* The Average of the data point with the greatest Timestamp, 0 when the  *)
(* answer has no data point.                                               *)
NewestAverage(answer) ==
    IF answer.Datapoints = <<>> THEN 0
    ELSE LET dps == answer.Datapoints
             i == CHOOSE k \in 1..Len(dps) :
                      \A j \in 1..Len(dps) : dps[j].Timestamp <= dps[k].Timestamp
         IN dps[i].Average

AllTiersSum(cw) == SumSeq([t \in Tiers |-> NewestAverage(cw.loop[t])])

QueryRaises(cw) ==
    \/ cw.primary.raises
    \/ /\ cw.primary.Datapoints = <<>>
       /\ \E t \in Tiers : cw.loop[t].raises

(* The size the metrics of a bucket stand for when no query fails.         *)
ReportedSize(cw) ==
    IF cw.primary.Datapoints # <<>> THEN NewestAverage(cw.primary)
    ELSE AllTiersSum(cw)

EntriesOf(name) == {i \in 1..Len(bucket_sizes) : bucket_sizes[i][1] = name}
PosIn(seq, name) == CHOOSE i \in 1..Len(seq) : seq[i] = name

(* C1: once the pool has shut down, bucket_sizes holds exactly one entry   *)
(* per submitted bucket; after the sort it is ordered by size descending,  *)
(* and entries of equal size are in the order in which as_completed handed *)
(* them over (the order they were appended in).                            *)
C1_OneEntryEachSortedStable ==
    /\ (main_pc \in {"sort", "summary", "done"} /\ bucket_names # <<>>) =>
          /\ Len(bucket_sizes) = Len(bucket_names)
          /\ \A b \in Buckets : Cardinality(EntriesOf(bucket_names[b])) = 1
    /\ (main_pc \in {"summary", "done"} /\ bucket_names # <<>>) =>
          \A i, j \in 1..Len(bucket_sizes) :
              i < j =>
                 \/ bucket_sizes[i][2] > bucket_sizes[j][2]
                 \/ /\ bucket_sizes[i][2] = bucket_sizes[j][2]
                    /\ PosIn(arrival, bucket_sizes[i][1]) < PosIn(arrival, bucket_sizes[j][1])

(* A finished run of three buckets with two sizes, where two buckets of    *)
(* equal size completed in the reverse of their submission order.          *)
C1_Witness ==
    /\ main_pc = "done"
    /\ Len(bucket_sizes) = 3
    /\ \E i, j \in 1..Len(bucket_sizes) :
          /\ i < j
          /\ bucket_sizes[i][2] = bucket_sizes[j][2]
          /\ bucket_sizes[i][1] > bucket_sizes[j][1]
    /\ \E i, j \in 1..Len(bucket_sizes) : bucket_sizes[i][2] > bucket_sizes[j][2]

(* C2: a bucket whose metrics query raises gets the result (bucket, 0),    *)
(* every other bucket gets the size its own metrics report, and the run    *)
(* ends with all of them in bucket_sizes.                                  *)
C2_FailureIsLocal ==
    /\ \A b \in Buckets :
          wpc[b] \in {"acquire", "print", "finished", "collected"} =>
             wsize[b] = IF QueryRaises(metrics[b]) THEN 0 ELSE ReportedSize(metrics[b])
    /\ (main_pc = "done" /\ bucket_names # <<>>) =>
          \A b \in Buckets :
             \E i \in 1..Len(bucket_sizes) :
                bucket_sizes[i] =
                   <<bucket_names[b],
                     IF QueryRaises(metrics[b]) THEN 0 ELSE ReportedSize(metrics[b])>>

(* One query raised while a sibling was past its own query, and the run    *)
(* ended with the non-zero sizes of the others.                            *)
C2_Witness ==
    /\ main_pc = "done"
    /\ Len(bucket_names) = 3
    /\ Cardinality({b \in Buckets : QueryRaises(metrics[b])}) = 1
    /\ \A b \in Buckets :
          ~QueryRaises(metrics[b]) =>
             \E i \in 1..Len(bucket_sizes) :
                bucket_sizes[i][1] = bucket_names[b] /\ bucket_sizes[i][2] > 0

(* C3: at most one task is inside the with lock block, and a task inside   *)
(* it holds the lock.                                                      *)
C3_ProgressMutex ==
    /\ Cardinality({b \in Buckets : wpc[b] = "print"}) <= 1
    /\ \A b \in Buckets : wpc[b] = "print" => lock = b

(* A task prints its progress line while another one waits for the lock.   *)
C3_Witness ==
    \E b, c \in Buckets : wpc[b] = "print" /\ wpc[c] = "acquire" /\ lock = b

(* C4: every write to the output stream made while tasks run is made by a  *)
(* thread that holds the lock: the progress line and the metrics warning.  *)
C4_EveryWriteUnderLock ==
    \A b \in Buckets : wpc[b] \in {"warn", "print"} => lock = b

(* C5: at most min(cap, N) tasks run at the same time.                     *)
C5_AtMostCapRunning ==
    bucket_names # <<>> =>
       Cardinality(Running) <= Min(PoolCap, Len(bucket_names))

(* The cap is reached and a submitted bucket waits in the queue.           *)
C5_Witness ==
    /\ Len(bucket_names) > PoolCap
    /\ Cardinality(Running) = PoolCap
    /\ work_queue # <<>>

(* C6: when the StandardStorage query has no data points and no query      *)
(* raises, the size is the sum over the ten storage classes of the Average *)
(* of the newest data point, 0 for a class without data points; with no    *)
(* data points at all the result is 0 and nothing is raised.               *)
C6_FallbackSumsAllTiers ==
    (/\ cw_result.returned
     /\ ~cloudwatch.primary.raises
     /\ cloudwatch.primary.Datapoints = <<>>
     /\ \A t \in Tiers : ~cloudwatch.loop[t].raises) =>
        /\ ~cw_result.raised
        /\ cw_result.size = AllTiersSum(cloudwatch)
        /\ Len(cw_result.queried) = 1 + Len(storage_classes)
        /\ (\A t \in Tiers : cloudwatch.loop[t].Datapoints = <<>>) => cw_result.size = 0

(* The fallback summed two storage classes, one of them with two data      *)
(* points whose newest is listed first.                                    *)
C6_Witness ==
    /\ cw_result.returned
    /\ cloudwatch.primary = NoData
    /\ \E t, u \in Tiers :
          /\ t # u
          /\ Len(cloudwatch.loop[t].Datapoints) = 2
          /\ cloudwatch.loop[t].Datapoints[1].Timestamp > cloudwatch.loop[t].Datapoints[2].Timestamp
          /\ cloudwatch.loop[u].Datapoints # <<>>
    /\ cw_result.size = AllTiersSum(cloudwatch)
    /\ cw_result.size > MaxAvg

(* C7: the fallback loop runs exactly when the StandardStorage answer has  *)
(* no data point; with a data point, also of value 0, the result is the    *)
(* Average of the newest StandardStorage data point and nothing else is    *)
(* queried.                                                                *)
C7_FallbackOnlyWhenEmpty ==
    (cw_result.returned /\ ~cloudwatch.primary.raises) =>
        /\ (Len(cw_result.queried) > 1) <=> (cloudwatch.primary.Datapoints = <<>>)
        /\ cloudwatch.primary.Datapoints # <<>> =>
              /\ cw_result.size = NewestAverage(cloudwatch.primary)
              /\ cw_result.queried = <<"StandardStorage">>
              /\ ~cw_result.raised

(* StandardStorage reports a newest data point of 0 while another storage  *)
(* class has data: the result is 0.                                        *)
C7_Witness ==
    /\ cw_result.returned
    /\ cloudwatch.primary.Datapoints # <<>>
    /\ NewestAverage(cloudwatch.primary) = 0
    /\ \E t \in Tiers : NewestAverage(cloudwatch.loop[t]) > 0
    /\ cw_result.size = 0
    /\ cw_result.queried = <<"StandardStorage">>

(* C8: the number format_size displays, after the rounding to two          *)
(* decimals, is below 1024 unless the unit is the last of the list, and    *)
(* format_size(0) is "0 B".                                                 *)
C8_DisplayedBelow1024 ==
    fmt_result.returned =>
        /\ fmt_result.unit # units[Len(units)] => fmt_result.number < 1024 * 100
        /\ size_bytes = <<0>> => fmt_result.text = "0 B"

(* C9: for n >= 1 the unit has the index min(floor(log1024(n)), last),     *)
(* where floor(log1024(n)) is the number of base-1024 digits of n less     *)
(* one; the value scaled to it is n / 1024^index, within [1, 1024) unless  *)
(* n is beyond the last unit; no decimals for B, two for the other units.  *)
C9_UnitAndDecimals ==
    (fmt_result.returned /\ size_bytes # <<0>>) =>
        LET last == Len(units) - 1
            k == Min(Len(size_bytes) - 1, last)
        IN /\ fmt_result.unit = units[k + 1]
           /\ fmt_result.decimals = (IF k = 0 THEN 0 ELSE 2)
           /\ Len(fmt_result.scaled.frac) = k
           /\ Reverse(fmt_result.scaled.frac) \o fmt_result.scaled.whole = size_bytes
           /\ Len(size_bytes) - 1 <= last =>
                 /\ Len(fmt_result.scaled.whole) = 1
                 /\ fmt_result.scaled.whole[1] \in 1..1023

(* 1024^5 bytes in the script whose last unit is TB.                       *)
C9_Witness ==
    /\ fmt_result.returned
    /\ units = units_cli
    /\ size_bytes = <<0, 0, 0, 0, 0, 1>>
    /\ fmt_result.text = "1024.00 TB"

AllObjects ==
    LET RECURSIVE Flat(_)
        Flat(ps) == IF ps = <<>> THEN <<>> ELSE Head(ps).Contents \o Flat(Tail(ps))
    IN Flat(pages)

(* The first path segment of the key relative to the prefix, none when the *)
(* relative key has no '/'.                                                 *)
RelativeOf(key) == SubSeq(key, Len(prefix) + 1, Len(key))
HasSegment(key) == \E i \in 1..Len(RelativeOf(key)) : RelativeOf(key)[i] = "/"
FirstSegment(key) ==
    LET rel == RelativeOf(key)
        i == CHOOSE n \in 1..Len(rel) :
                 rel[n] = "/" /\ \A m \in 1..(n - 1) : rel[m] # "/"
    IN SubSeq(rel, 1, i - 1)

(* The grouping key the script gives an object.                             *)
GroupOf(key) ==
    IF script = "folder_sizes"
    THEN IF HasSegment(key) THEN FirstSegment(key) ELSE <<"(", "r", "o", "o", "t", ")">>
    ELSE IF HasSegment(key) THEN prefix \o FirstSegment(key) \o <<"/">>
         ELSE prefix \o <<"(", "a", "r", "c", "h", "i", "v", "o", "s", " ", "d", "i", "r", "e", "c", "t", "o", "s", ")">>

SizeOfGroup(g) ==
    SumSeq([i \in 1..Len(AllObjects) |->
               IF GroupOf(AllObjects[i].Key) = g THEN AllObjects[i].Size ELSE 0])
CountOfGroup(g) ==
    Cardinality({i \in 1..Len(AllObjects) : GroupOf(AllObjects[i].Key) = g})

GroupSize(g) ==
    IF script = "folder_sizes" THEN folder_sizes[g] ELSE folder_sizes[g].size

ExampleDone ==
    /\ fs_pc = "returned"
    /\ prefix = base_prefix
    /\ pages = ExampleListing

(* C10 as stated: the example gives {"a": 15, "(direct files)": 3,          *)
(* "c": 2}, total size 20 and object count 4.                               *)
C10_ExampleAsStated ==
    ExampleDone =>
        /\ DOMAIN folder_sizes = {<<"a">>, <<"(", "d", "i", "r", "e", "c", "t", " ", "f", "i", "l", "e", "s", ")">>, <<"c">>}
        /\ GroupSize(<<"a">>) = 15
        /\ GroupSize(<<"(", "d", "i", "r", "e", "c", "t", " ", "f", "i", "l", "e", "s", ")">>) = 3
        /\ GroupSize(<<"c">>) = 2
        /\ script = "with_folder" => (fs_total = 20 /\ object_count = 4)

(* C10, amended: every listed object is attributed to the key of the first  *)
(* path segment of its key relative to the prefix, or to the sentinel of   *)
(* the script when the relative key has no '/'. For the example            *)
(* get_s3_folder_sizes gives {"a": 15, "(root)": 3, "c": 2}, and           *)
(* get_folder_size_s3 gives {"base/a/": 15, "base/(archivos directos)": 3, *)
(* "base/c/": 2} with 2, 1 and 1 objects, total size 20, object count 4.   *)
C10_ExampleGrouping ==
    /\ fs_pc = "returned" =>
          /\ DOMAIN folder_sizes = {GroupOf(AllObjects[i].Key) : i \in 1..Len(AllObjects)}
          /\ \A g \in DOMAIN folder_sizes : GroupSize(g) = SizeOfGroup(g)
          /\ script = "with_folder" =>
                \A g \in DOMAIN folder_sizes : folder_sizes[g].count = CountOfGroup(g)
    /\ (ExampleDone /\ script = "folder_sizes") =>
          /\ DOMAIN folder_sizes = {<<"a">>, <<"(", "r", "o", "o", "t", ")">>, <<"c">>}
          /\ folder_sizes[<<"a">>] = 15
          /\ folder_sizes[<<"(", "r", "o", "o", "t", ")">>] = 3
          /\ folder_sizes[<<"c">>] = 2
    /\ (ExampleDone /\ script = "with_folder") =>
          /\ DOMAIN folder_sizes = {<<"b", "a", "s", "e", "/", "a", "/">>, <<"b", "a", "s", "e", "/", "(", "a", "r", "c", "h", "i", "v", "o", "s", " ", "d", "i", "r", "e", "c", "t", "o", "s", ")">>, <<"b", "a", "s", "e", "/", "c", "/">>}
          /\ folder_sizes[<<"b", "a", "s", "e", "/", "a", "/">>] = [size |-> 15, count |-> 2]
          /\ folder_sizes[<<"b", "a", "s", "e", "/", "(", "a", "r", "c", "h", "i", "v", "o", "s", " ", "d", "i", "r", "e", "c", "t", "o", "s", ")">>] = [size |-> 3, count |-> 1]
          /\ folder_sizes[<<"b", "a", "s", "e", "/", "c", "/">>] = [size |-> 2, count |-> 1]
          /\ fs_total = 20
          /\ object_count = 4

(* get_folder_size_s3 has returned from the example listing.               *)
C10_Witness ==
    /\ ExampleDone
    /\ script = "with_folder"
    /\ Len(AllObjects) = 4
    /\ fs_total = 20

(* The objects the two loops have processed so far, in listing order.      *)
Processed ==
    LET RECURSIVE Before(_)
        Before(p) == IF p = 0 THEN <<>> ELSE Before(p - 1) \o pages[p].Contents
    IN IF page_no > Len(pages) THEN Before(Len(pages))
       ELSE Before(page_no - 1) \o SubSeq(pages[page_no].Contents, 1, obj_no)

RECURSIVE SumOfSizes(_, _)
SumOfSizes(d, keys) ==
    IF keys = {} THEN 0
    ELSE LET k == CHOOSE x \in keys : TRUE
         IN d[k].size + SumOfSizes(d, keys \ {k})

RECURSIVE SumOfCounts(_, _)
SumOfCounts(d, keys) ==
    IF keys = {} THEN 0
    ELSE LET k == CHOOSE x \in keys : TRUE
         IN d[k].count + SumOfCounts(d, keys \ {k})

(* C11: in get_folder_size_s3, after each object and at the end of the      *)
(* pagination, the sizes of the subfolder keys add up to total_size and    *)
(* their counts to object_count; the totals are those of the objects       *)
(* processed so far, each counted once, and each processed object is       *)
(* counted under exactly one key, the key of its subfolder.                *)
C11_SubfoldersPartitionTotals ==
    (script = "with_folder" /\ fs_pc \in {"loop", "returned"}) =>
        /\ SumOfSizes(folder_sizes, DOMAIN folder_sizes) = fs_total
        /\ SumOfCounts(folder_sizes, DOMAIN folder_sizes) = object_count
        /\ fs_total = SumSeq([i \in 1..Len(Processed) |-> Processed[i].Size])
        /\ object_count = Len(Processed)
        /\ DOMAIN folder_sizes = {GroupOf(Processed[i].Key) : i \in 1..Len(Processed)}
        /\ \A g \in DOMAIN folder_sizes :
              /\ folder_sizes[g].count =
                     Cardinality({i \in 1..Len(Processed) : GroupOf(Processed[i].Key) = g})
              /\ folder_sizes[g].size =
                     SumSeq([i \in 1..Len(Processed) |->
                                IF GroupOf(Processed[i].Key) = g
                                THEN Processed[i].Size ELSE 0])

(* In the middle of the second page, with two subfolder keys so far.       *)
C11_Witness ==
    /\ script = "with_folder"
    /\ fs_pc = "loop"
    /\ page_no = 2
    /\ obj_no = 1
    /\ Cardinality(DOMAIN folder_sizes) >= 2
    /\ object_count = PageSize + 1
    /\ fs_total > 0

(* The listing raised: get_folder_size_s3 printed its error line.          *)
ListingFailed == \E i \in 1..Len(printed) : printed[i].line = "error"

(* The listing under the prefix has no object.                              *)
NoObjects ==
    \A p \in 1..Len(pages) : ~pages[p].has_contents \/ pages[p].Contents = <<>>

(* C12: when the listing under the prefix has no object (no page has       *)
(* 'Contents', or there is no page) the enumeration returns total size 0,  *)
(* object count 0 and an empty grouping, and the script reports the empty  *)
(* result and ends with exit code 0, not with an exception.                *)
C12_EmptyListingIsNotAnError ==
    (NoObjects /\ listing_calls > 0 /\ ~ListingFailed) =>
        /\ exit_code \in {-1, 0}
        /\ fs_pc \in {"returned", "exited"} =>
              /\ DOMAIN folder_sizes = {}
              /\ fs_total = 0
              /\ object_count = 0
        /\ fs_pc = "exited" =>
              /\ exit_code = 0
              /\ printed =
                    IF script = "with_folder"
                    THEN <<[line |-> "analysing"],
                           [line |-> "result", total_size |-> 0, object_count |-> 0]>>
                    ELSE <<[line |-> "analysing"], [line |-> "no_objects"]>>

(* The with_folder script has reported a listing of two pages without      *)
(* 'Contents'.                                                              *)
C12_Witness ==
    /\ script = "with_folder"
    /\ pages = <<no_contents, no_contents>>
    /\ fs_pc = "exited"
    /\ exit_code = 0
    /\ Len(printed) = 2

(* What the run of the tool on a bucket says about its size: the number of *)
(* the 'Total Size:' line when the run completed with return code 0 and    *)
(* printed one, else 0.                                                     *)
ExpectedSize(result) ==
    IF result.kind = "completed" /\ result.returncode = 0 /\ result.reported >= 0
    THEN result.reported ELSE 0

MissingAt == {i \in 1..Len(bucket_names) : aws_ls[i].kind = "not_found"}

SummaryPrinted == \E j \in 1..Len(printed) : printed[j].line = "summary"

(* C13: in the CLI path a bucket whose run of the tool times out, returns  *)
(* a non-zero code or prints no 'Total Size:' line gets (bucket, 0) and    *)
(* the loop goes on with the next bucket in list order; a bucket whose run *)
(* returns 0 and prints 'Total Size: <digits>' gets that integer; after    *)
(* the loop the list has exactly one entry per listed bucket. The loop     *)
(* stops early only when the tool is not found.                             *)
C13_FailuresGiveZeroLoopGoesOn ==
    script = "cli" =>
        /\ main_pc \in {"loop", "sort"} =>
              /\ Len(bucket_sizes) <= Len(bucket_names)
              /\ \A i \in 1..Len(bucket_sizes) :
                    bucket_sizes[i] = <<bucket_names[i], ExpectedSize(aws_ls[i])>>
        /\ (main_pc \in {"sort", "summary"} \/ SummaryPrinted) =>
              /\ Len(bucket_sizes) = Len(bucket_names)
              /\ \A i \in 1..Len(bucket_names) :
                    Cardinality({j \in 1..Len(bucket_sizes) :
                                    bucket_sizes[j][1] = bucket_names[i]}) = 1
              /\ \A i \in 1..Len(bucket_names) :
                    \E j \in 1..Len(bucket_sizes) :
                        bucket_sizes[j] = <<bucket_names[i], ExpectedSize(aws_ls[i])>>
        /\ (main_pc = "done" /\ bucket_names # <<>> /\ ~SummaryPrinted) =>
              /\ Len(bucket_sizes) < Len(bucket_names)
              /\ aws_ls[Len(bucket_sizes) + 1].kind = "not_found"

(* A timeout, then a non-zero return code, then a bucket of 1 MB: the loop *)
(* has processed all three.                                                 *)
C13_Witness ==
    /\ script = "cli"
    /\ main_pc = "sort"
    /\ Len(bucket_names) = 3
    /\ aws_ls[1].kind = "timeout"
    /\ aws_ls[2].kind = "completed" /\ aws_ls[2].returncode # 0
    /\ aws_ls[3].kind = "completed" /\ aws_ls[3].returncode = 0
    /\ bucket_sizes = <<<<bucket_names[1], 0>>, <<bucket_names[2], 0>>,
                        <<bucket_names[3], 1048576>>>>

(* C14: in the CLI path a missing tool is fatal: when 'aws' is not found   *)
(* at the start-up check or in the run for a bucket, the process exits     *)
(* with code 1, no further bucket is processed and no summary is printed;  *)
(* no bucket whose run did not find the tool ever gets a (zero) entry.     *)
C14_MissingToolIsFatal ==
    script = "cli" =>
        /\ main_pc \in {"loop", "done"} =>
              \A i \in 1..Len(bucket_sizes) : aws_ls[i].kind # "not_found"
        /\ MissingAt # {} => main_pc \notin {"sort", "summary"} /\ ~SummaryPrinted
        /\ (main_pc = "done" /\ aws_version = "not_found") =>
              /\ exit_code = 1
              /\ bucket_names = <<>>
              /\ bucket_sizes = <<>>
              /\ total_size = -1
              /\ ~SummaryPrinted
        /\ (main_pc = "done" /\ MissingAt # {}) =>
              /\ exit_code = 1
              /\ \A i \in MissingAt : Len(bucket_sizes) < i
              /\ Len(bucket_sizes) + 1 \in MissingAt
              /\ total_size = -1
              /\ printed[Len(printed)].line = "not_installed"

(* The tool disappears before the run for the second of three buckets.     *)
C14_Witness ==
    /\ script = "cli"
    /\ main_pc = "done"
    /\ exit_code = 1
    /\ Len(bucket_names) = 3
    /\ aws_version = "ok"
    /\ aws_ls[2].kind = "not_found"
    /\ Len(bucket_sizes) = 1

(* C15: a run in which list_buckets fails for lack of valid credentials    *)
(* never ends like a run without buckets, that is with the "no buckets     *)
(* found" message and a successful exit.                                    *)
C15_AuthFailureNotReportedAsEmpty ==
    (script = "cli" /\ list_buckets.raises) =>
        ~(/\ main_pc = "done"
          /\ exit_code = 0
          /\ Len(printed) > 0
          /\ printed[Len(printed)].line = "no_buckets")

(* A name of 3 to 63 characters, all of them lowercase letters, digits,    *)
(* '.', '-' or '_'.                                                         *)
WellFormedName(name) ==
    /\ Len(name) >= 3
    /\ Len(name) <= 63
    /\ \A i \in 1..Len(name) : name[i] \in lowercase \cup digits \cup {".", "-", "_"}

(* C16: the folder scripts accept a bucket name if and only if it has 3 to *)
(* 63 characters, all lowercase letters, digits, '.', '-' or '_'; for a    *)
(* rejected name the process exits with code 1 before any listing call.    *)
C16_AcceptsExactlyWellFormedNames ==
    (script \in {"folder_sizes", "folder_2level"} /\ fs_pc # "main") =>
        /\ listing_calls > 0 <=> WellFormedName(bucket)
        /\ ~WellFormedName(bucket) => (exit_code = 1 /\ listing_calls = 0)
        /\ (bucket = valid_bucket) => listing_calls > 0
        /\ (bucket = invalid_bucket) => (exit_code = 1 /\ listing_calls = 0)

(* The name, lowercased, has the text at some place.                       *)
HasText(name, text) ==
    \E i \in 1..Len(name) :
        /\ i + Len(text) - 1 <= Len(name)
        /\ \A j \in 1..Len(text) : lower_char(name[i + j - 1]) = text[j]

Excluded(name) ==
    \/ HasText(name, <<"l", "i", "f", "e", "c", "y", "c", "l", "e">>)
    \/ HasText(name, <<"l", "o", "g", "s">>)
    \/ HasText(name, <<"d", "b", "-">>)

(* C17: in both CloudWatch scripts get_all_bucket_names returns, in        *)
(* listing order and with their original spelling, exactly the buckets     *)
(* whose lowercased name contains none of 'lifecycle', 'logs' and 'db-'.   *)
C17_ReturnsTheBucketsNotExcluded ==
    (script \in {"fast", "with_folder"} /\ main_pc = "listed" /\ ~list_buckets.raises) =>
        LET NotExcluded(name) == ~Excluded(name)
        IN bucket_names = SelectSeq(list_buckets.Buckets, NotExcluded)

(* The lines of a kind in the report, in the order they were printed.      *)
LinesOf(kind) ==
    LET is_kind(l) == l.line = kind
    IN SelectSeq(printed, is_kind)

(* C18: in the folder breakdown with --max-subfolders=N (N >= 0) over K    *)
(* subfolders exactly min(N, K) rows are displayed, they are the largest   *)
(* by size in descending order, and when K > N one 'remaining' line is     *)
(* shown that reports K - N subfolders with the sum of their sizes and     *)
(* counts, so that the displayed sizes plus the remaining size equal the   *)
(* total size.                                                              *)
C18_BreakdownCappedWithRemainder ==
    (script = "with_folder" /\ fs_pc = "exited" /\ exit_code = 0) =>
        LET K == Cardinality(DOMAIN folder_sizes)
            N == max_subfolders
            rows == LinesOf("subfolder")
            shown == {rows[i].subfolder_path : i \in 1..Len(rows)}
            rest == LinesOf("remaining")
            shown_size == SumSeq([i \in 1..Len(rows) |-> rows[i].size])
            shown_count == SumSeq([i \in 1..Len(rows) |-> rows[i].count])
        IN /\ Len(rows) = Min(N, K)
           /\ Cardinality(shown) = Len(rows)
           /\ \A i \in 1..Len(rows) :
                 /\ rows[i].subfolder_path \in DOMAIN folder_sizes
                 /\ rows[i].size = folder_sizes[rows[i].subfolder_path].size
                 /\ rows[i].count = folder_sizes[rows[i].subfolder_path].count
           /\ \A i \in 1..Len(rows) - 1 : rows[i].size >= rows[i + 1].size
           /\ \A i \in 1..Len(rows) :
                 \A g \in DOMAIN folder_sizes \ shown : rows[i].size >= folder_sizes[g].size
           /\ Len(rest) = (IF K > N THEN 1 ELSE 0)
           /\ K > N =>
                 /\ rest[1].remaining_folders = K - N
                 /\ rest[1].size = fs_total - shown_size
                 /\ rest[1].count = object_count - shown_count
           /\ shown_size + (IF K > N THEN rest[1].size ELSE 0) = fs_total

(* The relative key cut before its n-th '/', whole when it has fewer.      *)
SlashesUpTo(rel, p) == Cardinality({q \in 1..p : rel[q] = "/"})
TruncatedTo(rel, n) ==
    IF n = 0 THEN <<>>
    ELSE IF SlashesUpTo(rel, Len(rel)) < n THEN rel
    ELSE LET p == CHOOSE q \in 1..Len(rel) : rel[q] = "/" /\ SlashesUpTo(rel, q) = n
         IN SubSeq(rel, 1, p - 1)

DepthKey(key) ==
    IF HasSegment(key) THEN TruncatedTo(RelativeOf(key), depth)
    ELSE <<"(", "r", "o", "o", "t", ")">>

RECURSIVE SumOfValues(_, _)
SumOfValues(d, keys) ==
    IF keys = {} THEN 0
    ELSE LET k == CHOOSE x \in keys : TRUE
         IN d[k] + SumOfValues(d, keys \ {k})

(* C19: get_s3_folder_sizes of s3_folder_sizes_2level.py with depth N keys *)
(* each object by its key without the prefix, cut to its first N           *)
(* '/'-separated segments, or by "(root)" when the relative key has no     *)
(* '/'; the size under a key is the sum of the sizes of the objects with   *)
(* that key, and the sizes of all keys add up to the sizes of all objects. *)
C19_KeyedByFirstSegments ==
    (script = "folder_2level" /\ fs_pc \in {"returned", "exited"} /\ listing_calls > 0) =>
        /\ DOMAIN folder_sizes = {DepthKey(AllObjects[i].Key) : i \in 1..Len(AllObjects)}
        /\ \A g \in DOMAIN folder_sizes :
              folder_sizes[g] =
                 SumSeq([i \in 1..Len(AllObjects) |->
                            IF DepthKey(AllObjects[i].Key) = g
                            THEN AllObjects[i].Size ELSE 0])
        /\ SumOfValues(folder_sizes, DOMAIN folder_sizes) =
              SumSeq([i \in 1..Len(AllObjects) |-> AllObjects[i].Size])

(* Depth 2 under the prefix base/: a/k/w.txt is under "a/k", a/x.txt under *)
(* "a/x.txt" and b.txt under "(root)".                                      *)
C19_Witness ==
    /\ script = "folder_2level"
    /\ fs_pc = "returned"
    /\ depth = 2
    /\ prefix = base_prefix
    /\ DOMAIN folder_sizes = {<<"a", "/", "k">>, <<"a", "/", "x", ".", "t", "x", "t">>,
                              <<"(", "r", "o", "o", "t", ")">>}
    /\ folder_sizes[<<"a", "/", "k">>] = 3

(* The sort has started, or is about to.                                   *)
PastBarrier == main_pc \in {"sort", "summary"} \/ (main_pc = "done" /\ total_size # -1)

(* C20: fan-in barrier of the CloudWatch fan-out: the sort and the summary *)
(* start only after every submitted bucket has produced its result and     *)
(* the result was appended to bucket_sizes; no entry is appended once the  *)
(* sort has started; the TOTAL printed is the sum of the sizes of all      *)
(* entries, which are the sizes the tasks returned.                        *)
C20_FanInBarrier ==
    /\ [](script = "fanout" /\ PastBarrier =>
            /\ submitted = Len(bucket_names)
            /\ work_queue = <<>>
            /\ \A b \in Buckets :
                  /\ wpc[b] = "collected"
                  /\ Cardinality(EntriesOf(bucket_names[b])) = 1
                  /\ \A i \in EntriesOf(bucket_names[b]) : bucket_sizes[i][2] = wsize[b]
            /\ Len(bucket_sizes) = Len(bucket_names)
            /\ total_size # -1 =>
                  /\ total_size = SumSeq([i \in 1..Len(bucket_sizes) |-> bucket_sizes[i][2]])
                  /\ total_size = SumSeq([b \in Buckets |-> wsize[b]]))
    /\ [][script = "fanout" /\ PastBarrier =>
            /\ Len(bucket_sizes') = Len(bucket_sizes)
            /\ {bucket_sizes'[i] : i \in 1..Len(bucket_sizes')}
                  = {bucket_sizes[i] : i \in 1..Len(bucket_sizes)}
            /\ arrival' = arrival]_vars

(* The summary of a run of MaxBuckets buckets, one of them failed.         *)
C20_Witness ==
    /\ script = "fanout"
    /\ main_pc = "done"
    /\ Len(bucket_names) = MaxBuckets
    /\ Len(bucket_sizes) = MaxBuckets
    /\ total_size > 0
    /\ \E b \in Buckets : QueryRaises(metrics[b])

(* C21: under fair scheduling the fan-out terminates: a held print lock is *)
(* released, a task waiting for the lock gets it, every bucket gets its    *)
(* progress line and its result is collected, and main reaches the end of  *)
(* the summary (or returns at once when there is no bucket), whatever the  *)
(* number of buckets relative to the worker cap.                           *)
C21_FanoutTerminates ==
    /\ (lock # 0) ~> (lock = 0)
    /\ \A b \in 1..MaxBuckets + 1 :
          /\ (b \in Buckets /\ wpc[b] = "acquire") ~> (b \in Buckets /\ wpc[b] = "print")
          /\ (b \in Buckets /\ main_pc = "submit") ~> (b \in Buckets /\ wpc[b] = "finished")
          /\ (b \in Buckets /\ main_pc = "submit") ~> (b \in Buckets /\ wpc[b] = "collected")
    /\ <>(/\ main_pc = "done"
          /\ lock = 0
          /\ bucket_names # <<>> =>
                /\ total_size # -1
                /\ Len(bucket_sizes) = Len(bucket_names))

(* More buckets than pool threads, all done, the lock free.                *)
C21_Witness ==
    /\ script = "fanout"
    /\ main_pc = "done"
    /\ Len(bucket_names) > PoolCap
    /\ \A b \in Buckets : wpc[b] = "collected"
    /\ lock = 0
    /\ total_size # -1

(* C22: when the listing of get_folder_size_s3 raises, on any page, the    *)
(* function prints its error and returns (folder_path, 0, 0, {}): what was *)
(* accumulated from the pages before is not returned, and the exception    *)
(* does not escape: main goes on, reports total size 0 and 0 objects and   *)
(* ends with exit code 0.                                                   *)
C22_FailedListingReturnsZeroes ==
    /\ fs_pc = "failed" =>
          /\ script = "with_folder"
          /\ fs_total = 0
          /\ object_count = 0
          /\ DOMAIN folder_sizes = {}
          /\ exit_code = -1
          /\ printed[Len(printed)] = [line |-> "error", folder_path |-> prefix]
    /\ (ListingFailed /\ fs_pc = "exited") =>
          /\ exit_code = 0
          /\ printed = <<[line |-> "analysing"],
                         [line |-> "error", folder_path |-> prefix],
                         [line |-> "result", total_size |-> 0, object_count |-> 0]>>

(* The third page raised after two pages with objects of 3 bytes.          *)
C22_Witness ==
    /\ fs_pc = "failed"
    /\ page_no = 3
    /\ Len(Processed) = 2 * PageSize
    /\ \E i \in 1..Len(Processed) : Processed[i].Size > 0
    /\ fs_total = 0

(* The part of the argument before its first '/' (all of it without one)   *)
(* and the part after it.                                                   *)
FirstSlash(a) ==
    IF \E j \in 1..Len(a) : a[j] = "/"
    THEN CHOOSE j \in 1..Len(a) : a[j] = "/" /\ \A k \in 1..j - 1 : a[k] # "/"
    ELSE Len(a) + 1
BeforeFirstSlash(a) == SubSeq(a, 1, FirstSlash(a) - 1)
AfterFirstSlash(a) == SubSeq(a, FirstSlash(a) + 1, Len(a))

(* A path without the '/' characters at its end.                           *)
RECURSIVE WithoutTrailingSlashes(_)
WithoutTrailingSlashes(path) ==
    IF path # <<>> /\ path[Len(path)] = "/"
    THEN WithoutTrailingSlashes(SubSeq(path, 1, Len(path) - 1))
    ELSE path

EndsInExactlyOneSlash(path) ==
    /\ path # <<>>
    /\ path[Len(path)] = "/"
    /\ Len(path) > 1 => path[Len(path) - 1] # "/"

(* C23: parse_bucket_and_prefix splits its argument at the first '/': the  *)
(* bucket is the part before it; the prefix is empty when nothing follows  *)
(* the bucket name ('bucket' and 'bucket/') and otherwise is the remaining *)
(* path ending in exactly one '/' ('bucket/path' and 'bucket/path/' both   *)
(* give 'path/').                                                           *)
C23_PrefixEndsInOneSlash ==
    (script \in {"folder_sizes", "folder_2level"} /\ fs_pc = "main") =>
        /\ bucket = BeforeFirstSlash(arg)
        /\ IF AfterFirstSlash(arg) = <<>>
           THEN prefix = <<>>
           ELSE /\ EndsInExactlyOneSlash(prefix)
                /\ WithoutTrailingSlashes(prefix) =
                      WithoutTrailingSlashes(AfterFirstSlash(arg))

====
